---- MODULE Spec2Model ----
(***************************************************************************)
(* Verification model of pygoogalytics: the response fetchers of           *)
(* GoogalyticsWrapper (GA4 offset paging, GA3 page tokens, GSC start-row   *)
(* paging), the get_df facade above them, and the keyword-planner retry    *)
(* loop of KeywordPlanService.                                             *)
(*                                                                         *)
(* Each Python function that loops over backend calls is one record-valued *)
(* variable holding the function's locals under their source names, with a *)
(* pc field for the position in the function.  The vendor backends are the *)
(* environment: every call draws its outcome from a small set.             *)
(*                                                                         *)
(* Rows are not enumerated one by one.  A page of n rows served from       *)
(* position lo of the backend's result set is the segment [lo, n]; a row   *)
(* list is a sequence of segments and list concatenation is \o.            *)
(***************************************************************************)
EXTENDS Integers, Sequences, FiniteSets, TLC

VARIABLES env, ga4, ga3, gsc, df, kwp, idea, tbl, vol, col, hist, gkm, frm, cal, probe

\* the variables outside GoogalyticsWrapper and KeywordPlanService
other_vars == <<idea, tbl, vol, col, hist, gkm, frm, cal, probe>>

vars == <<env, ga4, ga3, gsc, df, kwp, other_vars>>

(***************************************************************************)
(* Bounds of the model                                                     *)
(***************************************************************************)
\* backend calls one run may make (the GA4 and GA3 loops have no cap of their own)
MaxCalls == 6

\* backend calls one get_df run may make
MaxDfCalls == 3

\* attempts of the keyword-metrics fetch the model follows
MaxAttempts == 6

(***************************************************************************)
(* Python values                                                           *)
(***************************************************************************)
\* None where a string is expected (error_type, page tokens)
None == "None"

\* None where an int is expected (limit: int | None = None)
NoLimit == -1

\* None where an exception object is expected (error = None)
NoException == [cls |-> "None", msg |-> {}, at |-> 0]

\* An exception object: its class, the marker texts its message contains, and
\* the number of the backend call that raised it (its identity).
Exception(cls, msg, at) == [cls |-> cls, msg |-> msg, at |-> at]

Min(a, b) == IF a <= b THEN a ELSE b

Max(a, b) == IF a >= b THEN a ELSE b

\* len(rows) of a row list held as segments
RECURSIVE RowCount(_)
RowCount(rows) ==
    IF rows = <<>> THEN 0 ELSE Head(rows).n + RowCount(Tail(rows))

\* the rows [lo, lo + n) as a row list
Segment(lo, n) == IF n > 0 THEN <<[lo |-> lo, n |-> n]>> ELSE <<>>

(***************************************************************************)
(* The environment: configuration of the wrapper and the vendor backends   *)
(***************************************************************************)
\* datetime.date.today(), dates being day numbers
TODAY == 5

\* env.calls      number of backend (network) calls made so far
\* env.max_calls  where the model stops following the run
\* env.mode       "honest": the GA4 backend holds env.total rows and serves
\*                [offset, offset + limit); "free": any page it likes
\* env.ga4_property_id, env.view_id, env.sc_domain: is the identifier set
EnvInit(max_calls, mode, total, pid, vid, dom) ==
    [calls |-> 0, max_calls |-> max_calls, today |-> TODAY, mode |-> mode, total |-> total,
     ga4_property_id |-> pid, view_id |-> vid, sc_domain |-> dom]

\* total row counts an honest GA4 backend may hold
HonestTotals == {0, 42, 100000, 200042}

\* page sizes and reported totals a free GA4 backend may answer with
FreeRows == {0, 42, 100000}

FreeTotals == {0, 42, 200042}

\* marker texts an InvalidArgument message may contain
InvalidArgumentMessages == SUBSET {"metrics are incompatible", "Invalid property ID"}

\* A RunReportResponse: the rows of the page and the total row_count it reports
RunReportResponse(lo, n, row_count) ==
    [kind |-> "ok", rows |-> Segment(lo, n), row_count |-> row_count,
     exc |-> NoException]

Raises(cls, msg, at) ==
    [kind |-> "raise", rows |-> <<>>, row_count |-> 0, exc |-> Exception(cls, msg, at)]

\* What ga4_resource.run_report(request) may do for a request (limit, offset)
run_report(e, limit, offset) ==
    LET at == e.calls + 1
        pages == IF e.mode = "honest"
                 THEN {RunReportResponse(offset, Max(0, Min(limit, e.total - offset)), e.total)}
                 ELSE {RunReportResponse(offset, n, t) :
                          n \in {k \in FreeRows : k <= limit}, t \in FreeTotals}
    IN  pages
        \cup {Raises(c, {}, at) : c \in {"PermissionDenied", "ResourceExhausted", "Exception"}}
        \cup {Raises("InvalidArgument", m, at) : m \in InvalidArgumentMessages}

(***************************************************************************)
(* utils/ga4_parser.py                                                     *)
(***************************************************************************)
\* parse_ga4_response: rows are read only when the reported row_count is positive
parse_ga4_response(r) ==
    LET rows == IF r.row_count > 0 THEN r.rows ELSE <<>>
    IN  [response_type |-> "GA4", meta_row_count |-> r.row_count,
         row_count |-> RowCount(rows), rows |-> rows]

RECURSIVE ExtendAll(_)
ExtendAll(responses) ==
    IF responses = <<>> THEN <<>>
    ELSE Head(responses).rows \o ExtendAll(Tail(responses))

\* mutant: row_count copied from the first page like the other header fields
join_ga4_responses_first_count(responses) ==
    LET rows == ExtendAll(responses)
    IN  [response_type |-> "GA4", meta_row_count |-> responses[1].meta_row_count,
         row_count |-> responses[1].row_count, rows |-> rows]

\* join_ga4_responses: rows of all pages in order, row_count re-counted,
\* meta_row_count of the first page
join_ga4_responses(responses) ==
    LET rows == ExtendAll(responses)
    IN  [response_type |-> "GA4", meta_row_count |-> responses[1].meta_row_count,
         row_count |-> RowCount(rows), rows |-> rows]

(***************************************************************************)
(* Python dicts                                                            *)
(***************************************************************************)
\* dict(): the empty mapping
EmptyDict == [k \in {} |-> 0]

\* d.get(key, default)
Get(d, key, default) == IF key \in DOMAIN d THEN d[key] ELSE default

\* d[key] = value for each key of upd (upd wins over d)
Update(d, upd) == upd @@ d

(***************************************************************************)
(* GoogalyticsWrapper._ga4_response_raw                                    *)
(***************************************************************************)
ga4_response_raw_unchecked(e, limit, offset) == run_report(e, limit, offset)

\* raises MissingID before anything is sent when ga4_property_id is unset,
\* else hands the request to the backend
ga4_response_raw(e, limit, offset) ==
    IF ~e.ga4_property_id
    THEN {Raises("MissingID", {}, e.calls + 1)}
    ELSE run_report(e, limit, offset)

\* does the call reach the backend
ga4_request_sent(e) == e.ga4_property_id

(***************************************************************************)
(* GoogalyticsWrapper.get_ga4_response                                     *)
(***************************************************************************)
GA4_REQUEST_LIMIT == 100000

GA4_DEFAULT_LIMIT == 1000000000

GA4_MAX_TRIES == 3

GA4_STOP_TRIES == 1000

Ga4Idle == [pc |-> "idle"]

\* mutant: the first match wins
invalid_argument_error_type_first_match(msg) ==
    IF "metrics are incompatible" \in msg THEN "IncompatibleMetrics"
    ELSE IF "Invalid property ID" \in msg THEN "InvalidPropertyID"
    ELSE "InvalidArgument"

\* error_type of an InvalidArgument: the second match overwrites the first
invalid_argument_error_type(msg) ==
    LET t0 == "InvalidArgument"
        t1 == IF "metrics are incompatible" \in msg THEN "IncompatibleMetrics" ELSE t0
        t2 == IF "Invalid property ID" \in msg THEN "InvalidPropertyID" ELSE t1
    IN  t2

\* the except clauses of the page attempt
ga4_except(f, exc) ==
    CASE exc.cls = "PermissionDenied" ->
            [f EXCEPT !.complete = TRUE, !.error_type = "PermissionDenied",
                      !.error = exc, !.num_tries = GA4_STOP_TRIES]
      [] exc.cls = "ResourceExhausted" ->
            [f EXCEPT !.complete = TRUE, !.error_type = "ResourceExhausted",
                      !.error = exc, !.num_tries = GA4_STOP_TRIES]
      [] exc.cls = "MissingID" ->
            [f EXCEPT !.complete = TRUE, !.error_type = "MissingID",
                      !.error = exc, !.num_tries = GA4_STOP_TRIES]
      [] exc.cls = "InvalidArgument" ->
            [f EXCEPT !.complete = TRUE,
                      !.error_type = invalid_argument_error_type(exc.msg),
                      !.error = exc, !.num_tries = GA4_STOP_TRIES]
      [] OTHER ->
            [f EXCEPT !.error_type = "Error", !.error = exc, !.num_tries = @ + 1]

\* mutant: the request size ignores a smaller caller limit
ga4_request_limit_fixed(limit) == GA4_REQUEST_LIMIT

\* the request size: 100,000, or the caller's limit when that is smaller
ga4_request_limit(limit) ==
    IF limit = NoLimit THEN GA4_REQUEST_LIMIT
    ELSE IF limit < GA4_REQUEST_LIMIT THEN limit ELSE GA4_REQUEST_LIMIT

\* the frame on entry, up to the first pass through the head of the outer loop
ga4_enter(limit) ==
    [pc |-> "try",
     limit_arg |-> limit,
     limit |-> IF limit = NoLimit THEN GA4_DEFAULT_LIMIT ELSE limit,
     request_limit |-> ga4_request_limit(limit),
     complete |-> FALSE, error_type |-> None, responses |-> <<>>,
     error |-> NoException, offset |-> 0,
     num_tries |-> 0, success |-> FALSE, response |-> EmptyDict,
     result |-> EmptyDict, log |-> <<>>]

\* one line of the call log of the invocation (history, not program state)
LogEntry(f, e, o) ==
    [limit |-> f.request_limit, offset |-> f.offset, sent |-> ga4_request_sent(e),
     kind |-> o.kind, cls |-> o.exc.cls, exc |-> o.exc,
     row_count |-> IF o.kind = "ok" THEN parse_ga4_response(o).row_count ELSE 0,
     meta_row_count |-> o.row_count]

\* one pass through the body of the inner while: one call of _ga4_response_raw
ga4_try(f, e, o) ==
    LET f0 == [f EXCEPT !.error = NoException]
        f1 == IF o.kind = "ok"
              THEN [f0 EXCEPT !.response = parse_ga4_response(o), !.success = TRUE]
              ELSE ga4_except(f0, o.exc)
    IN  [f1 EXCEPT !.log = Append(@, LogEntry(f, e, o)),
                   !.pc = IF f1.num_tries < GA4_MAX_TRIES /\ ~f1.success
                          THEN "try" ELSE "page_end"]

\* after the inner while: account for a fetched page, then the head of the
\* outer while (a new page attempt starts unless complete)
ga4_page_end(f) ==
    LET row_count == Get(f.response, "row_count", 0)
        offset == IF f.success THEN f.offset + row_count ELSE f.offset
        complete == f.complete
                    \/ (f.success /\ offset >= f.limit)
                    \/ (f.success /\ (row_count = 0
                          \/ offset >= Get(f.response, "meta_row_count", GA4_DEFAULT_LIMIT)))
        f1 == [f EXCEPT !.offset = offset, !.complete = complete,
                        !.responses = IF f.success THEN Append(@, f.response) ELSE @]
    IN  IF complete
        THEN [f1 EXCEPT !.pc = "return"]
        ELSE [f1 EXCEPT !.pc = "try", !.num_tries = 0, !.success = FALSE,
                        !.response = EmptyDict]

\* after the outer while: one response out of the pages, tagged with the error
ga4_return(f) ==
    LET n == Len(f.responses)
        response == IF n > 1 THEN join_ga4_responses(f.responses)
                    ELSE IF n = 1 THEN f.responses[1]
                    ELSE [response_type |-> "GA4", rows |-> <<>>]
        empty == n >= 1 /\ Get(response, "row_count", 0) = 0
        error == IF empty THEN Exception("AttributeError", {"Empty response"}, 0) ELSE f.error
        error_type == IF empty THEN "EmptyResponse" ELSE f.error_type
    IN  Update(response, [error |-> error, error_type |-> error_type])

\* caller limits tried
Ga4Limits == {NoLimit, 0, 42, 100000, 150000}

get_ga4_response_call ==
    /\ ga4.pc = "idle"
    /\ df.pc = "idle"
    /\ \E limit \in Ga4Limits : ga4' = ga4_enter(limit)
    /\ UNCHANGED <<env, ga3, gsc, df, kwp, other_vars>>

get_ga4_response_try ==
    /\ ga4.pc = "try"
    /\ env.calls < env.max_calls
    /\ \E o \in ga4_response_raw(env, ga4.request_limit, ga4.offset) :
          ga4' = ga4_try(ga4, env, o)
    /\ env' = [env EXCEPT !.calls = IF ga4_request_sent(env) THEN @ + 1 ELSE @]
    /\ UNCHANGED <<ga3, gsc, df, kwp, other_vars>>

get_ga4_response_page_end ==
    /\ ga4.pc = "page_end"
    /\ ga4' = ga4_page_end(ga4)
    /\ UNCHANGED <<env, ga3, gsc, df, kwp, other_vars>>

get_ga4_response_return ==
    /\ ga4.pc = "return"
    /\ ga4' = [ga4 EXCEPT !.pc = "done", !.result = ga4_return(ga4)]
    /\ UNCHANGED <<env, ga3, gsc, df, kwp, other_vars>>

Ga3Idle == [pc |-> "idle"]

GscIdle == [pc |-> "idle"]

DfIdle == [pc |-> "idle"]

KwpIdle == [pc |-> "idle"]

IdeaIdle == [pc |-> "idle"]

TblIdle == [pc |-> "idle"]

VolIdle == [pc |-> "idle"]

ColIdle == [pc |-> "idle"]

HistIdle == [pc |-> "idle"]

GkmIdle == [pc |-> "idle"]

FrmIdle == [pc |-> "idle"]

CalIdle == [pc |-> "idle"]

ProbeIdle == [pc |-> "idle"]

\* the state of everything the fetchers of GoogalyticsWrapper do not touch
OtherInit ==
    /\ idea = IdeaIdle
    /\ tbl = TblIdle
    /\ vol = VolIdle
    /\ col = ColIdle
    /\ hist = HistIdle
    /\ gkm = GkmIdle
    /\ frm = FrmIdle
    /\ cal = CalIdle
    /\ probe = ProbeIdle

InitGA4 ==
    /\ \E mode \in {"honest", "free"}, total \in HonestTotals, pid \in BOOLEAN :
          /\ mode = "free" => total = 0
          /\ env = EnvInit(MaxCalls, mode, total, pid, TRUE, TRUE)
    /\ ga4 = Ga4Idle
    /\ ga3 = Ga3Idle
    /\ gsc = GscIdle
    /\ df = DfIdle
    /\ kwp = KwpIdle
    /\ OtherInit

NextGA4 ==
    \/ get_ga4_response_call
    \/ get_ga4_response_try
    \/ get_ga4_response_page_end
    \/ get_ga4_response_return

SpecGA4 == InitGA4 /\ [][NextGA4]_vars

(***************************************************************************)
(* Claims about get_ga4_response                                           *)
(***************************************************************************)
Ga4Returned == ga4.pc = "done"

Ga4Started == ga4.pc # "idle"

Ga4Log == IF Ga4Started THEN ga4.log ELSE <<>>

\* rows fetched by the successful calls before call i of the log
RECURSIVE Ga4RowsBefore(_, _)
Ga4RowsBefore(log, i) ==
    IF i <= 1 THEN 0 ELSE log[i - 1].row_count + Ga4RowsBefore(log, i - 1)

\* the result set [lo, total) cut into pages of at most 100,000 rows
RECURSIVE PagesOf(_, _)
PagesOf(lo, total) ==
    IF lo >= total THEN <<>>
    ELSE Segment(lo, Min(GA4_REQUEST_LIMIT, total - lo))
            \o PagesOf(lo + GA4_REQUEST_LIMIT, total)

Ga4NeverRaised == \A i \in 1..Len(Ga4Log) : Ga4Log[i].kind = "ok"

Ga4CompleteCase ==
    /\ Ga4Returned
    /\ env.mode = "honest"
    /\ env.total > 0
    /\ ga4.limit_arg = NoLimit
    /\ Ga4NeverRaised

\* C1: an honest backend holding N > 0 rows that never raises, fetched with no
\* caller limit, gives one response whose rows are all pages in order, whose
\* row_count is N and whose error and error_type are None.
C1_CompleteFetch ==
    Ga4CompleteCase =>
        /\ ga4.result.rows = PagesOf(0, env.total)
        /\ ga4.result.row_count = env.total
        /\ ga4.result.error = NoException
        /\ ga4.result.error_type = None

\* the 100,000 / 100,000 / 42 scenario has been fetched
C1_Witness ==
    /\ Ga4CompleteCase
    /\ env.total = 200042
    /\ Len(ga4.responses) = 3
    /\ ga4.result.row_count = 200042

Ga4IsGeneric(entry) ==
    entry.kind = "raise"
    /\ entry.cls \notin {"PermissionDenied", "ResourceExhausted", "MissingID", "InvalidArgument"}

\* C2: a page is attempted at most 3 times in a row on generic exceptions:
\* the log never holds 4 consecutive generic failures (they are at one offset,
\* the offset moving only on success).
C2_RetryBound ==
    \A i \in 1..Len(Ga4Log) :
        i + GA4_MAX_TRIES <= Len(Ga4Log) =>
            ~(\A j \in i..(i + GA4_MAX_TRIES) : Ga4IsGeneric(Ga4Log[j]))

Ga4IsTerminal(entry) ==
    entry.kind = "raise"
    /\ entry.cls \in {"PermissionDenied", "ResourceExhausted", "MissingID", "InvalidArgument"}

Ga4LastIsTerminal == Len(Ga4Log) > 0 /\ Ga4IsTerminal(Ga4Log[Len(Ga4Log)])

\* a terminal error is the last call of the fetch: no retry, no later page
Ga4TerminalIsLast ==
    \A i \in 1..Len(Ga4Log) : Ga4IsTerminal(Ga4Log[i]) => i = Len(Ga4Log)

\* the returned response carries the terminal exception itself
Ga4TerminalErrorKept ==
    (Ga4Returned /\ Ga4LastIsTerminal) =>
        ga4.result.error = Ga4Log[Len(Ga4Log)].exc

\* C3 as stated: each message text decides the error_type by itself
C3_TerminalErrors_Original ==
    /\ Ga4TerminalIsLast
    /\ Ga4TerminalErrorKept
    /\ (Ga4Returned /\ Ga4LastIsTerminal) =>
          LET exc == Ga4Log[Len(Ga4Log)].exc
              t == ga4.result.error_type
          IN  /\ exc.cls # "InvalidArgument" => t = exc.cls
              /\ exc.cls = "InvalidArgument" =>
                    /\ "metrics are incompatible" \in exc.msg => t = "IncompatibleMetrics"
                    /\ "Invalid property ID" \in exc.msg => t = "InvalidPropertyID"
                    /\ exc.msg = {} => t = "InvalidArgument"

\* C3, amended: PermissionDenied, ResourceExhausted, MissingID and
\* InvalidArgument end the fetch at once (no retry, no later page) and the
\* response carries the exception and its error_type; for InvalidArgument the
\* type is 'InvalidPropertyID' when the message contains 'Invalid property ID',
\* else 'IncompatibleMetrics' when it contains 'metrics are incompatible', else
\* 'InvalidArgument'.
C3_TerminalErrors ==
    /\ Ga4TerminalIsLast
    /\ Ga4TerminalErrorKept
    /\ (Ga4Returned /\ Ga4LastIsTerminal) =>
          LET exc == Ga4Log[Len(Ga4Log)].exc
              t == ga4.result.error_type
          IN  /\ exc.cls # "InvalidArgument" => t = exc.cls
              /\ exc.cls = "InvalidArgument" =>
                    t = IF "Invalid property ID" \in exc.msg THEN "InvalidPropertyID"
                        ELSE IF "metrics are incompatible" \in exc.msg
                             THEN "IncompatibleMetrics"
                             ELSE "InvalidArgument"

\* a terminal InvalidArgument on the second page, both marker texts in its message
C3_Witness ==
    /\ Ga4Returned
    /\ Len(Ga4Log) = 2
    /\ Ga4Log[1].kind = "ok"
    /\ Ga4Log[2].cls = "InvalidArgument"
    /\ Ga4Log[2].exc.msg = {"metrics are incompatible", "Invalid property ID"}
    /\ ga4.result.error_type = "InvalidPropertyID"

\* the caller's limit has been reached by c rows
Ga4LimitReached(c) == ga4.limit_arg # NoLimit /\ c >= ga4.limit_arg

\* the stop conditions after the successful call i of the log
Ga4StopAfter(log, i) ==
    LET c == Ga4RowsBefore(log, i + 1)
    IN  \/ Ga4LimitReached(c)
        \/ log[i].row_count = 0
        \/ c >= log[i].meta_row_count

\* C7: every request carries limit = min(100,000, caller's limit) and offset =
\* rows of the earlier successful pages; after a successful page the fetch
\* stops exactly when the caller's limit is reached, the page was empty or the
\* reported total is reached, and otherwise goes on to request the next page.
C7_RequestProtocol ==
    /\ \A i \in 1..Len(Ga4Log) :
          /\ Ga4Log[i].limit = (IF ga4.limit_arg = NoLimit THEN GA4_REQUEST_LIMIT
                                ELSE Min(GA4_REQUEST_LIMIT, ga4.limit_arg))
          /\ Ga4Log[i].offset = Ga4RowsBefore(Ga4Log, i)
          /\ (i < Len(Ga4Log) /\ Ga4Log[i].kind = "ok") => ~Ga4StopAfter(Ga4Log, i)
    /\ (Len(Ga4Log) > 0 /\ Ga4Log[Len(Ga4Log)].kind = "ok") =>
          LET stop == Ga4StopAfter(Ga4Log, Len(Ga4Log))
          IN  /\ ga4.pc \in {"return", "done"} => stop
              /\ ga4.pc = "try" => ~stop

\* three pages were requested at offsets 0, 42 and 84 of a caller limit above 100,000
C7_Witness ==
    /\ Ga4Returned
    /\ ga4.limit_arg = 150000
    /\ Len(Ga4Log) >= 3
    /\ Ga4Log[3].offset = 84
    /\ Ga4Log[3].kind = "ok"

(***************************************************************************)
(* The GA3 backend: ga3_resource.reports().batchGet(body).execute()        *)
(***************************************************************************)
\* page tokens the backend may hand out
Ga3Tokens == {"t1", "t2"}

\* page sizes of a GA3 report page (0: the report has no 'rows' key)
Ga3Rows == {0, 7, 100000}

\* marker texts repr(http_error).lower() may contain
HttpErrorMessages ==
    SUBSET {"user does not have sufficient permissions", "viewid must be set"}

\* a batchGet response with one report; the rows of the page served by call
\* number c are the segment [c, n]
Ga3Report(header, rows, token) ==
    LET h == IF header THEN [columnHeader |-> "columnHeader"] ELSE EmptyDict
        d == IF rows # <<>> THEN [rows |-> rows] ELSE EmptyDict
        t == IF token # None THEN [nextPageToken |-> token] ELSE EmptyDict
    IN  [kind |-> "ok", reports |-> h @@ d @@ t, exc |-> NoException]

Ga3Raises(cls, msg, at) ==
    [kind |-> "raise", reports |-> EmptyDict, exc |-> Exception(cls, msg, at)]

batchGet(e) ==
    LET at == e.calls + 1
    IN  {Ga3Report(h, Segment(at, n), t) :
            h \in BOOLEAN, n \in Ga3Rows, t \in Ga3Tokens \cup {None}}
        \cup {Ga3Raises("HttpError", m, at) : m \in HttpErrorMessages}
        \cup {Ga3Raises("Exception", {}, at)}

(***************************************************************************)
(* GoogalyticsWrapper._ga3_response_raw                                    *)
(***************************************************************************)
\* outcomes of the call: nothing is sent when view_id is unset
ga3_execute(e) ==
    IF ~e.view_id THEN {Ga3Raises("PermissionError", {"view_id is not set"}, e.calls + 1)}
    ELSE batchGet(e)

ga3_request_sent(e) == e.view_id

\* error_type of an HttpError: None unless a text matches, the second match
\* overwriting the first
http_error_type(msg) ==
    LET t1 == IF "user does not have sufficient permissions" \in msg
              THEN "insufficient_permissions" ELSE None
        t2 == IF "viewid must be set" \in msg THEN "missing_view_id" ELSE t1
    IN  t2

\* the dict _ga3_response_raw returns for outcome o of the call
ga3_response_raw(e, o) ==
    IF ~e.view_id
    THEN [error |-> o.exc, error_type |-> "missing_view_id"]
    ELSE IF o.kind = "raise"
    THEN [error |-> o.exc,
          error_type |-> IF o.exc.cls = "HttpError" THEN http_error_type(o.exc.msg)
                         ELSE "other"]
    ELSE IF "rows" \notin DOMAIN o.reports
    THEN [reports |-> o.reports,
          error |-> Exception("AttributeError", {"ga3_response in incorrect format."}, 0),
          error_type |-> "empty_response"]
    ELSE [reports |-> o.reports, error |-> NoException, error_type |-> None]

(***************************************************************************)
(* utils/ga4_parser.py: parse_ga3_response                                 *)
(***************************************************************************)
\* one normalized row per response row
parse_ga3_response(column_header, response_rows) ==
    [response_type |-> "GA3", row_count |-> RowCount(response_rows),
     rows |-> response_rows]

(***************************************************************************)
(* GoogalyticsWrapper.get_ga3_response                                     *)
(***************************************************************************)
\* r.get('reports', [{}])[0]
Ga3ReportOf(r) == Get(r, "reports", EmptyDict)

Ga3LogEntry(page_token, e, r) ==
    [page_token |-> page_token, sent |-> ga3_request_sent(e),
     rows |-> Get(Ga3ReportOf(r), "rows", <<>>),
     nextPageToken |-> Get(Ga3ReportOf(r), "nextPageToken", None),
     error |-> r.error, error_type |-> r.error_type]

\* the first request (no page token) and the locals read off its response
ga3_enter(e, o) ==
    LET r == ga3_response_raw(e, o)
    IN  [pc |-> "loop",
         data |-> Get(Ga3ReportOf(r), "rows", <<>>),
         column_header |-> Get(Ga3ReportOf(r), "columnHeader", None),
         next_page_token |-> Get(Ga3ReportOf(r), "nextPageToken", None),
         error |-> r.error, error_type |-> r.error_type,
         result |-> EmptyDict, normalized |-> FALSE,
         log |-> <<Ga3LogEntry(None, e, r)>>]

\* the loop condition: a next-page token and no error
ga3_continue(f) == f.next_page_token # None /\ f.error = NoException

\* mutant: the rows of the new page replace the rows fetched so far
ga3_page_replace(f, e, o) ==
    LET r == ga3_response_raw(e, o)
    IN  [f EXCEPT !.error = r.error, !.error_type = r.error_type,
                  !.data = Get(Ga3ReportOf(r), "rows", <<>>),
                  !.next_page_token = Get(Ga3ReportOf(r), "nextPageToken", None),
                  !.log = Append(@, Ga3LogEntry(f.next_page_token, e, r))]

\* one pass through the while: the request with the token of the last response
ga3_page(f, e, o) ==
    LET r == ga3_response_raw(e, o)
    IN  [f EXCEPT !.error = r.error, !.error_type = r.error_type,
                  !.data = @ \o Get(Ga3ReportOf(r), "rows", <<>>),
                  !.next_page_token = Get(Ga3ReportOf(r), "nextPageToken", None),
                  !.log = Append(@, Ga3LogEntry(f.next_page_token, e, r))]

\* after the while: the rows go to the normalizer when the first response had a
\* column header; the response is tagged with the last error
ga3_return(f) ==
    LET response == IF f.column_header # None
                    THEN parse_ga3_response(f.column_header, f.data)
                    ELSE [row_count |-> 0, rows |-> <<>>]
    IN  [f EXCEPT !.pc = "done", !.normalized = f.column_header # None,
                  !.result = Update(response, [response_type |-> "GA3",
                                               error |-> f.error,
                                               error_type |-> f.error_type])]

get_ga3_response_call ==
    /\ ga3.pc = "idle"
    /\ df.pc = "idle"
    /\ env.calls < env.max_calls
    /\ \E o \in ga3_execute(env) : ga3' = ga3_enter(env, o)
    /\ env' = [env EXCEPT !.calls = IF ga3_request_sent(env) THEN @ + 1 ELSE @]
    /\ UNCHANGED <<ga4, gsc, df, kwp, other_vars>>

get_ga3_response_page ==
    /\ ga3.pc = "loop"
    /\ ga3_continue(ga3)
    /\ env.calls < env.max_calls
    /\ \E o \in ga3_execute(env) : ga3' = ga3_page(ga3, env, o)
    /\ env' = [env EXCEPT !.calls = IF ga3_request_sent(env) THEN @ + 1 ELSE @]
    /\ UNCHANGED <<ga4, gsc, df, kwp, other_vars>>

get_ga3_response_return ==
    /\ ga3.pc = "loop"
    /\ ~ga3_continue(ga3)
    /\ ga3' = ga3_return(ga3)
    /\ UNCHANGED <<env, ga4, gsc, df, kwp, other_vars>>

InitGA3 ==
    /\ \E vid \in BOOLEAN : env = EnvInit(MaxCalls, "free", 0, TRUE, vid, TRUE)
    /\ ga4 = Ga4Idle
    /\ ga3 = Ga3Idle
    /\ gsc = GscIdle
    /\ df = DfIdle
    /\ kwp = KwpIdle
    /\ OtherInit

NextGA3 ==
    \/ get_ga3_response_call
    \/ get_ga3_response_page
    \/ get_ga3_response_return

SpecGA3 == InitGA3 /\ [][NextGA3]_vars

(***************************************************************************)
(* Claims about get_ga3_response                                           *)
(***************************************************************************)
Ga3Log == IF ga3.pc = "idle" THEN <<>> ELSE ga3.log

RECURSIVE Ga3AllRows(_)
Ga3AllRows(log) ==
    IF log = <<>> THEN <<>> ELSE Head(log).rows \o Ga3AllRows(Tail(log))

Ga3Goes(entry) == entry.nextPageToken # None /\ entry.error = NoException

\* C8: the first request has no page token; each later request carries the
\* token of the response before it, and is made only after a response with a
\* token and no error; the fetch returns at the first response without token or
\* with an error; the normalizer gets the rows of all responses, in order.
C8_Ga3Pagination ==
    /\ Len(Ga3Log) > 0 => Ga3Log[1].page_token = None
    /\ \A i \in 2..Len(Ga3Log) :
          /\ Ga3Goes(Ga3Log[i - 1])
          /\ Ga3Log[i].page_token = Ga3Log[i - 1].nextPageToken
    /\ ga3.pc = "done" =>
          /\ ~Ga3Goes(Ga3Log[Len(Ga3Log)])
          /\ ga3.normalized => ga3.result.rows = Ga3AllRows(Ga3Log)

\* two pages of rows, then a page that failed: the rows of the two are kept
C8_Witness ==
    /\ ga3.pc = "done"
    /\ Len(Ga3Log) = 3
    /\ Ga3Log[3].error.cls = "HttpError"
    /\ Len(Ga3Log[1].rows) = 1 /\ Len(Ga3Log[2].rows) = 1
    /\ ga3.normalized
    /\ ga3.result.row_count = 100007

(***************************************************************************)
(* The GSC backend: gsc_resource.searchanalytics().query(...).execute()    *)
(***************************************************************************)
GSC_PAGE_ROWS == 25000

\* a query response: n rows from start_row on ('rows' is absent when n = 0)
GscResponse(start_row, n) ==
    [kind |-> "ok",
     body |-> IF n > 0 THEN [rows |-> Segment(start_row, n)] ELSE EmptyDict,
     exc |-> NoException]

GscRaises(cls, msg, at) ==
    [kind |-> "raise", body |-> EmptyDict, exc |-> Exception(cls, msg, at)]

\* the backend answers a request with at most the rows it asks for, or fails
searchanalytics_query(e, row_limit, start_row) ==
    LET at == e.calls + 1
    IN  {GscResponse(start_row, n) :
            n \in {k \in {0, 1, 10000, GSC_PAGE_ROWS, row_limit} : k >= 0 /\ k <= row_limit}}
        \cup {GscRaises("HttpError", m, at) :
                m \in {{}, {"user does not have sufficient permissions"}, {"quota exceeded"}}}
        \cup {GscRaises("Exception", {}, at)}

(***************************************************************************)
(* GoogalyticsWrapper.get_gsc_response (raise_http_error = False)          *)
(***************************************************************************)
\* what get_gsc_response returns when it returns nothing
GscNone == [kind |-> "None"]

\* does outcome o of the query leave get_gsc_response by an exception
gsc_response_raises(o) == o.kind = "raise" /\ o.exc.cls # "HttpError"

\* the value returned for outcome o: None for an HttpError and for a response
\* without rows, else the response
get_gsc_response(o) ==
    IF o.kind = "raise" THEN GscNone
    ELSE IF "rows" \notin DOMAIN o.body THEN GscNone
    ELSE [kind |-> "response", rows |-> o.body.rows]

(***************************************************************************)
(* googlepandas.GSCDataFrame, as far as its rows go                        *)
(***************************************************************************)
\* GSCDataFrame(df_input=None, ...) and from_response(response, "GSC", ...)
GSCDataFrame(gsc_response) ==
    [rows |-> IF gsc_response = GscNone THEN <<>> ELSE gsc_response.rows]

\* pd.concat(frames, ignore_index=True)
RECURSIVE concat(_)
concat(frames) ==
    IF frames = <<>> THEN <<>> ELSE Head(frames).rows \o concat(Tail(frames))

(***************************************************************************)
(* GoogalyticsWrapper._get_gsc_df_raw                                      *)
(***************************************************************************)
GscLogEntry(e, row_limit, start_row, o) ==
    [row_limit |-> row_limit, start_row |-> start_row,
     none |-> get_gsc_response(o) = GscNone,
     returned |-> get_gsc_response(o),
     rows |-> GSCDataFrame(get_gsc_response(o)).rows,
     kind |-> o.kind, exc |-> o.exc]

\* mutant: further pages are fetched whenever more than 25,000 rows are asked
\* for, however many rows the first page had
gsc_more_pages_always(row_limit, gsc_df) == row_limit > GSC_PAGE_ROWS

\* are further pages fetched after the first
gsc_more_pages(row_limit, gsc_df) ==
    row_limit > GSC_PAGE_ROWS /\ RowCount(gsc_df.rows) = GSC_PAGE_ROWS

\* the first request and what follows it up to the head of the while
gsc_enter(e, row_limit, o) ==
    LET gsc_df == GSCDataFrame(get_gsc_response(o))
        more == gsc_more_pages(row_limit, gsc_df)
    IN  [pc |-> IF gsc_response_raises(o) THEN "raised"
                ELSE IF more THEN "loop" ELSE "done",
         row_limit |-> row_limit,
         gsc_df |-> gsc_df,
         temp_row_limit |-> IF more THEN row_limit - GSC_PAGE_ROWS ELSE 0,
         temp_start_row |-> IF more THEN GSC_PAGE_ROWS ELSE 0,
         frames |-> IF more THEN <<gsc_df>> ELSE <<>>,
         log |-> <<GscLogEntry(e, Min(row_limit, GSC_PAGE_ROWS), 0, o)>>]

\* one pass through the while: the next request; None breaks out of the loop
gsc_page(f, e, o) ==
    LET gsc_response2 == get_gsc_response(o)
        f1 == [f EXCEPT !.log = Append(@, GscLogEntry(e, Min(f.temp_row_limit, GSC_PAGE_ROWS),
                                                      f.temp_start_row, o))]
    IN  IF gsc_response_raises(o) THEN [f1 EXCEPT !.pc = "raised"]
        ELSE IF gsc_response2 = GscNone THEN [f1 EXCEPT !.pc = "break"]
        ELSE [f1 EXCEPT !.frames = Append(@, GSCDataFrame(gsc_response2)),
                        !.temp_row_limit = @ - GSC_PAGE_ROWS,
                        !.temp_start_row = @ + GSC_PAGE_ROWS]

\* after the while: the frames are concatenated when there are several
gsc_return(f) ==
    [f EXCEPT !.pc = "done",
              !.gsc_df = IF Len(f.frames) > 1 THEN [rows |-> concat(f.frames)] ELSE @]

\* row limits tried
GscLimits == {0, 1, 25000, 25001, 50000, 60000, 100000}

get_gsc_df_raw_call ==
    /\ gsc.pc = "idle"
    /\ df.pc = "idle"
    /\ \E row_limit \in GscLimits :
          \E o \in searchanalytics_query(env, Min(row_limit, GSC_PAGE_ROWS), 0) :
             gsc' = gsc_enter(env, row_limit, o)
    /\ env' = [env EXCEPT !.calls = @ + 1]
    /\ UNCHANGED <<ga4, ga3, df, kwp, other_vars>>

get_gsc_df_raw_page ==
    /\ gsc.pc = "loop"
    /\ gsc.temp_row_limit > 0
    /\ \E o \in searchanalytics_query(env, Min(gsc.temp_row_limit, GSC_PAGE_ROWS),
                                      gsc.temp_start_row) :
          gsc' = gsc_page(gsc, env, o)
    /\ env' = [env EXCEPT !.calls = @ + 1]
    /\ UNCHANGED <<ga4, ga3, df, kwp, other_vars>>

get_gsc_df_raw_return ==
    /\ \/ gsc.pc = "loop" /\ gsc.temp_row_limit <= 0
       \/ gsc.pc = "break"
    /\ gsc' = gsc_return(gsc)
    /\ UNCHANGED <<env, ga4, ga3, df, kwp, other_vars>>

InitGSC ==
    /\ env = EnvInit(MaxCalls, "free", 0, TRUE, TRUE, TRUE)
    /\ ga4 = Ga4Idle
    /\ ga3 = Ga3Idle
    /\ gsc = GscIdle
    /\ df = DfIdle
    /\ kwp = KwpIdle
    /\ OtherInit

NextGSC ==
    \/ get_gsc_df_raw_call
    \/ get_gsc_df_raw_page
    \/ get_gsc_df_raw_return

SpecGSC == InitGSC /\ [][NextGSC]_vars

(***************************************************************************)
(* Claims about _get_gsc_df_raw                                            *)
(***************************************************************************)
GscLog == IF gsc.pc = "idle" THEN <<>> ELSE gsc.log

RECURSIVE GscAllRows(_)
GscAllRows(log) ==
    IF log = <<>> THEN <<>> ELSE Head(log).rows \o GscAllRows(Tail(log))

RECURSIVE GscRequested(_)
GscRequested(log) ==
    IF log = <<>> THEN 0 ELSE Head(log).row_limit + GscRequested(Tail(log))

\* ceil(a / b) for a >= 0, b > 0
CeilDiv(a, b) == (a + b - 1) \div b

GscLastNone == GscLog[Len(GscLog)].none

\* C9 as stated: with row_limit above 25,000 the fetch goes on until the rows
\* requested reach row_limit or a request returns no response
C9_GscPagination_Original ==
    (gsc.pc = "done" /\ gsc.row_limit > GSC_PAGE_ROWS) =>
        (GscRequested(GscLog) >= gsc.row_limit \/ GscLastNone)

\* the requests of the fetch: at most 25,000 rows each, start_row advancing by
\* 25,000, a further request only after a full first page and only responses
GscRequestsInOrder ==
    \A i \in 1..Len(GscLog) :
        /\ GscLog[i].row_limit <= GSC_PAGE_ROWS
        /\ GscLog[i].start_row = GSC_PAGE_ROWS * (i - 1)
        /\ i > 1 =>
              /\ gsc.row_limit > GSC_PAGE_ROWS
              /\ RowCount(GscLog[1].rows) = GSC_PAGE_ROWS
              /\ ~GscLog[i - 1].none
              /\ GSC_PAGE_ROWS * (i - 1) < gsc.row_limit

\* C9, amended: every request asks for at most 25,000 rows; when row_limit
\* exceeds 25,000 and the first page came back with exactly 25,000 rows,
\* further requests follow at start_row 25,000, 50,000, ... until the rows
\* requested reach row_limit or a request returns no response; the pages are
\* concatenated in order; at most max(1, ceil(row_limit / 25,000)) requests are
\* made and the table has at most row_limit rows.
C9_GscPagination ==
    /\ GscRequestsInOrder
    /\ gsc.pc # "idle" => Len(GscLog) <= Max(1, CeilDiv(gsc.row_limit, GSC_PAGE_ROWS))
    /\ gsc.pc = "done" =>
          /\ (gsc.row_limit > GSC_PAGE_ROWS /\ RowCount(GscLog[1].rows) = GSC_PAGE_ROWS) =>
                (GscRequested(GscLog) >= gsc.row_limit \/ GscLastNone)
          /\ gsc.gsc_df.rows = GscAllRows(GscLog)
          /\ RowCount(gsc.gsc_df.rows) <= gsc.row_limit

\* 60,000 rows asked for and delivered in pages of 25,000 / 25,000 / 10,000
C9_Witness ==
    /\ gsc.pc = "done"
    /\ gsc.row_limit = 60000
    /\ Len(GscLog) = 3
    /\ GscLog[3].row_limit = 10000
    /\ RowCount(gsc.gsc_df.rows) = 60000

(***************************************************************************)
(* googlepandas: the Table (GADataFrame) as far as rows and error tag go   *)
(***************************************************************************)
\* GADataFrame(df_input=None, ..., error=error): the empty table
EmptyGADataFrame(error) == [rows |-> <<>>, error |-> error]

\* from_response -> from_standard_analytics_response: the rows of the response,
\* tagged with its error_type, and the columns of its metrics
from_response(response) ==
    [rows |-> response.rows, error |-> response.error_type,
     metric_columns |-> {response.metric_headers[i] : i \in DOMAIN response.metric_headers}]

\* pd.merge(left, right, how="outer"): pages both sides hold are matched, the
\* others are kept
merge_outer(left_rows, right_rows) ==
    left_rows \o SelectSeq(right_rows,
                           LAMBDA seg : \A i \in 1..Len(left_rows) : left_rows[i] # seg)

\* truth value of an error tag: None and '' are false
Truthy(tag) == tag # None /\ tag # ""

join_error_first_real(self_error, dataframe_error) ==
    IF Truthy(self_error) /\ self_error # "empty_response" THEN self_error
    ELSE IF Truthy(dataframe_error) /\ dataframe_error # "empty_response"
         THEN dataframe_error
    ELSE None

\* join_on_dimensions, _e: the tag of the left table if it has one, else
\* that of the right one; then 'empty_response' becomes None
join_error(self_error, dataframe_error) ==
    LET e0 == IF Truthy(self_error) THEN self_error ELSE dataframe_error
    IN  IF e0 = "empty_response" THEN None ELSE e0

\* join_on_dimensions as far as rows, error tag and metric columns go
join_on_dimensions(left, right) ==
    [rows |-> merge_outer(left.rows, right.rows),
     error |-> join_error(left.error, right.error),
     metric_columns |-> left.metric_columns \cup right.metric_columns]

(***************************************************************************)
(* GoogalyticsWrapper.get_df and _get_analytics_df, _get_gsc_df            *)
(***************************************************************************)
\* None where a date is expected
NoDate == 0

GSC_DEFAULT_START_DAYS == 3

GSC_DEFAULT_ROW_LIMIT == 100000

METRICS_PER_REQUEST == 10

\* mutant: only the full chunks, range(len(_list) // 10)
metrics_chunks_full_only(metrics) ==
    [i \in 1..(Len(metrics) \div METRICS_PER_REQUEST) |->
        SubSeq(metrics, METRICS_PER_REQUEST * (i - 1) + 1, METRICS_PER_REQUEST * i)]

\* [_list[10 * i:10 * i + 10] for i in range((len(_list) - 1) // 10 + 1)]
metrics_chunks(metrics) ==
    [i \in 1..((Len(metrics) - 1) \div METRICS_PER_REQUEST + 1) |->
        SubSeq(metrics, METRICS_PER_REQUEST * (i - 1) + 1,
               Min(METRICS_PER_REQUEST * i, Len(metrics)))]

\* the prefix of a GA3 field name, a name being a sequence of characters
GA_PREFIX == <<"g", "a", ":">>

\* re.sub(r"^ga:", "", name)
strip_ga(name) ==
    IF Len(name) >= Len(GA_PREFIX) /\ SubSeq(name, 1, Len(GA_PREFIX)) = GA_PREFIX
    THEN SubSeq(name, Len(GA_PREFIX) + 1, Len(name))
    ELSE name

\* [[re.sub(r"^ga:", "", _m) for _m in _sub_list] for _sub_list in metrics_list]
strip_ga_lists(metrics_list) ==
    [i \in DOMAIN metrics_list |->
        [j \in DOMAIN metrics_list[i] |-> strip_ga(metrics_list[i][j])]]

\* the date range _get_analytics_df refuses
date_range_incompatible(e, start_date, end_date) ==
    end_date < start_date \/ start_date > e.today

\* get_df up to the dispatch, then the head of the function it dispatches to
get_df_enter(e, result, start_date, end_date, row_limit, metrics) ==
    LET start == IF start_date # NoDate THEN start_date
                 ELSE IF result = "GSC" THEN e.today - GSC_DEFAULT_START_DAYS
                 ELSE e.today
        end == IF end_date # NoDate THEN end_date ELSE start
        f == [pc |-> "idle", result |-> result, start_date |-> start, end_date |-> end,
              row_limit |-> row_limit, metrics |-> metrics,
              metrics_list |-> strip_ga_lists(metrics_chunks(metrics)), fetches |-> <<>>,
              responses |-> <<>>, breaking_error |-> FALSE,
              breaking_error_type |-> None, raised |-> None,
              dataframe |-> EmptyGADataFrame(None), gsc_log |-> <<>>]
    IN  IF result \in {"GA3", "GA4"}
        THEN IF date_range_incompatible(e, start, end)
             THEN [f EXCEPT !.pc = "raised", !.raised = "ValueError"]
             ELSE [f EXCEPT !.pc = "chunk"]
        ELSE IF result \in {"GSC", "GSCQ"}
        THEN IF ~e.sc_domain
             THEN [f EXCEPT !.pc = "done", !.dataframe = GscNone]
             ELSE [f EXCEPT !.pc = "gsc",
                            !.row_limit = IF row_limit = NoLimit
                                          THEN GSC_DEFAULT_ROW_LIMIT ELSE row_limit]
        ELSE [f EXCEPT !.pc = "raised", !.raised = "KeyError"]

\* mutant: the loop goes on after a breaking error
df_more_chunks_no_break(f) == Len(f.responses) < Len(f.metrics_list)

\* is there a metrics chunk left to fetch
df_more_chunks(f) ==
    ~f.breaking_error /\ Len(f.responses) < Len(f.metrics_list)

\* the _metrics of the next pass through the loop
df_next_metrics(f) == f.metrics_list[Len(f.responses) + 1]

\* the fetcher is called with metrics=_metrics (fetches: the history of these
\* calls, not program state)
analytics_df_fetch(f) ==
    [f EXCEPT !.pc = "fetch", !.fetches = Append(@, df_next_metrics(f))]

\* the loop body after the fetch of a chunk: the response (with the metric
\* headers of its request) is kept; an empty-response tag is normalized, any
\* other error_type breaks the loop
analytics_df_response(f, r) ==
    LET t == r.error_type
        empty == t \in {"empty_response", "EmptyResponse", "emptyResponse"}
        r0 == Update(r, [metric_headers |-> f.fetches[Len(f.fetches)]])
        r1 == IF t # None /\ empty THEN Update(r0, [error_type |-> "empty_response"]) ELSE r0
        breaking == t # None /\ ~empty
    IN  [f EXCEPT !.pc = "chunk",
                  !.responses = Append(@, r1),
                  !.breaking_error = breaking,
                  !.breaking_error_type = IF breaking THEN t ELSE @]

\* general_utils.expand_list on a list of lists
RECURSIVE expand_list(_)
expand_list(list_of_lists) ==
    IF list_of_lists = <<>> THEN <<>>
    ELSE Head(list_of_lists) \o expand_list(Tail(list_of_lists))

\* GADataFrame(df_input=None, dimensions=dimensions,
\*             metrics=expand_list(metrics_list), error=breaking_error_type)
EmptyAnalyticsDataFrame(f) ==
    LET metrics == expand_list(f.metrics_list)
    IN  [rows |-> <<>>, error |-> f.breaking_error_type,
         metric_columns |-> {metrics[i] : i \in DOMAIN metrics}]

RECURSIVE join_frames(_, _)
join_frames(dataframe, frames) ==
    IF frames = <<>> THEN dataframe
    ELSE join_frames(join_on_dimensions(dataframe, Head(frames)), Tail(frames))

\* after the loop (raise_errors is False on every path from get_df): the
\* frames of the responses, joined into the table returned
analytics_df_return(f) ==
    LET frames == IF f.breaking_error THEN <<>>
                  ELSE [i \in 1..Len(f.responses) |-> from_response(f.responses[i])]
        joined == join_frames(frames[1], Tail(frames))
        dataframe ==
            IF Len(frames) = 0 THEN EmptyAnalyticsDataFrame(f)
            ELSE IF \A i \in 1..Len(frames) : RowCount(frames[i].rows) = 0
            THEN EmptyAnalyticsDataFrame(f)
            ELSE IF Len(frames) = 1 THEN frames[1]
            ELSE IF RowCount(joined.rows) = 0 /\ joined.error = None
            THEN [joined EXCEPT !.error = "empty_response"]
            ELSE joined
    IN  [f EXCEPT !.pc = "done", !.dataframe = dataframe]

\* arguments tried
DfResults == {"GA3", "GA4", "GSC", "GSCQ", "XX"}

DfDates == {NoDate, 4, 6}

DfRowLimits == {NoLimit, 42, 60000}

\* metric names
DfMetricNames ==
    <<<<"a">>, <<"b">>, <<"c">>, <<"d">>, <<"e">>, <<"f">>, <<"g">>, <<"h">>,
      <<"i">>, <<"j">>, GA_PREFIX \o <<"k">>>>

DfMetrics ==
    {<<>>, <<DfMetricNames[1]>>, <<GA_PREFIX \o DfMetricNames[1]>>, DfMetricNames}

get_df_call ==
    /\ df.pc = "idle"
    /\ ga4.pc = "idle" /\ ga3.pc = "idle" /\ gsc.pc = "idle"
    /\ \E result \in DfResults, start_date \in DfDates, end_date \in DfDates,
          row_limit \in DfRowLimits, metrics \in DfMetrics :
          df' = get_df_enter(env, result, start_date, end_date, row_limit, metrics)
    /\ UNCHANGED <<env, ga4, ga3, gsc, kwp, other_vars>>

\* the fetch of the next metrics chunk starts (GA4)
analytics_df_fetch_ga4 ==
    /\ df.pc = "chunk"
    /\ df.result = "GA4"
    /\ df_more_chunks(df)
    /\ ga4' = ga4_enter(df.row_limit)
    /\ df' = analytics_df_fetch(df)
    /\ UNCHANGED <<env, ga3, gsc, kwp, other_vars>>

\* the fetch of the next metrics chunk starts with its first request (GA3)
analytics_df_fetch_ga3 ==
    /\ df.pc = "chunk"
    /\ df.result = "GA3"
    /\ df_more_chunks(df)
    /\ env.calls < env.max_calls
    /\ \E o \in ga3_execute(env) : ga3' = ga3_enter(env, o)
    /\ env' = [env EXCEPT !.calls = IF ga3_request_sent(env) THEN @ + 1 ELSE @]
    /\ df' = analytics_df_fetch(df)
    /\ UNCHANGED <<ga4, gsc, kwp, other_vars>>

\* the fetcher has returned its response
analytics_df_fetched ==
    /\ df.pc = "fetch"
    /\ \/ /\ ga4.pc = "done"
          /\ df' = analytics_df_response(df, ga4.result)
       \/ /\ ga3.pc = "done"
          /\ df' = analytics_df_response(df, ga3.result)
    /\ ga4' = Ga4Idle
    /\ ga3' = Ga3Idle
    /\ UNCHANGED <<env, gsc, kwp, other_vars>>

get_df_return_analytics ==
    /\ df.pc = "chunk"
    /\ ~df_more_chunks(df)
    /\ df' = analytics_df_return(df)
    /\ UNCHANGED <<env, ga4, ga3, gsc, kwp, other_vars>>

\* _get_gsc_df: the first Search Console request
get_df_fetch_gsc ==
    /\ df.pc = "gsc"
    /\ \E o \in searchanalytics_query(env, Min(df.row_limit, GSC_PAGE_ROWS), 0) :
          gsc' = gsc_enter(env, df.row_limit, o)
    /\ env' = [env EXCEPT !.calls = @ + 1]
    /\ df' = [df EXCEPT !.pc = "gsc_fetch"]
    /\ UNCHANGED <<ga4, ga3, kwp, other_vars>>

get_df_return_gsc ==
    /\ df.pc = "gsc_fetch"
    /\ gsc.pc \in {"done", "raised"}
    /\ df' = IF gsc.pc = "done"
             THEN [df EXCEPT !.pc = "done", !.dataframe = gsc.gsc_df, !.gsc_log = gsc.log]
             ELSE [df EXCEPT !.pc = "raised", !.raised = "Exception", !.gsc_log = gsc.log]
    /\ gsc' = GscIdle
    /\ UNCHANGED <<env, ga4, ga3, kwp, other_vars>>

InitDF ==
    /\ \E ids \in BOOLEAN : env = EnvInit(MaxDfCalls, "free", 0, ids, ids, ids)
    /\ ga4 = Ga4Idle
    /\ ga3 = Ga3Idle
    /\ gsc = GscIdle
    /\ df = DfIdle
    /\ kwp = KwpIdle
    /\ OtherInit

NextDF ==
    \/ get_df_call
    \/ analytics_df_fetch_ga4
    \/ analytics_df_fetch_ga3
    \/ analytics_df_fetched
    \/ get_df_return_analytics
    \/ get_df_fetch_gsc
    \/ get_df_return_gsc
    \/ get_ga4_response_try
    \/ get_ga4_response_page_end
    \/ get_ga4_response_return
    \/ get_ga3_response_page
    \/ get_ga3_response_return
    \/ get_gsc_df_raw_page
    \/ get_gsc_df_raw_return

SpecDF == InitDF /\ [][NextDF]_vars

(***************************************************************************)
(* Claims about get_df                                                     *)
(***************************************************************************)
DfStarted == df.pc # "idle"

DfIsQuery == DfStarted /\ df.result \in {"GA3", "GA4", "GSC", "GSCQ"}

\* C4: a query whose end_date is before its start_date, or whose start_date
\* is after today, makes no backend call, whichever backend it selects, and
\* what it raises is the value error.
C4_DateRangeValidation ==
    (DfIsQuery /\ date_range_incompatible(env, df.start_date, df.end_date)) =>
        /\ env.calls = 0
        /\ df.pc = "raised" => df.raised = "ValueError"

\* exception classes a backend call fails with
FetchErrors ==
    {"HttpError", "Exception", "PermissionDenied", "ResourceExhausted", "InvalidArgument"}

\* a response of the run carries the exception of a failed backend call
DfFetchFailed ==
    \E i \in 1..Len(df.responses) : df.responses[i].error.cls \in FetchErrors

\* C5: when a GA3 or GA4 backend call of a get_df run has failed, get_df
\* returns a Table whose error tag is set.
C5_ErrorCaptured ==
    (DfStarted /\ df.pc = "done" /\ df.result \in {"GA3", "GA4"} /\ DfFetchFailed) =>
        df.dataframe.error # None

(***************************************************************************)
(* Claims about the results the three fetchers hand back                   *)
(***************************************************************************)
\* what the caller can tell a result by
Tag(result) == <<result.error.cls, result.error_type>>

\* the result of a fetch whose only backend call had outcome o
Ga4Single(o) == ga4_return(ga4_page_end(ga4_try(ga4_enter(NoLimit), env, o)))

Ga3Single(o) == ga3_return(ga3_enter(env, o)).result

GscSingle(o) == get_gsc_response(o)

PermissionText == {"user does not have sufficient permissions"}

\* C6: for each backend the result of a call rejected with a permission error
\* differs, in its error / error_type tag, from the result of a successful
\* call with zero rows and from the result of a call rejected for quota; and
\* these two differ from each other.
C6_DiscriminatedResult ==
    /\ (ga4.pc = "done" /\ Len(ga4.log) = 1 /\ ga4.log[1].cls = "PermissionDenied") =>
          LET empty == Tag(Ga4Single(RunReportResponse(0, 0, 0)))
              quota == Tag(Ga4Single(Raises("ResourceExhausted", {}, 1)))
          IN  /\ Tag(ga4.result) # empty
              /\ Tag(ga4.result) # quota
              /\ empty # quota
    /\ (ga3.pc = "done" /\ Len(ga3.log) = 1 /\ ga3.log[1].error.cls = "HttpError"
          /\ ga3.log[1].error.msg = PermissionText) =>
          LET empty == Tag(Ga3Single(Ga3Report(TRUE, <<>>, None)))
              quota == Tag(Ga3Single(Ga3Raises("HttpError", {}, 1)))
          IN  /\ Tag(ga3.result) # empty
              /\ Tag(ga3.result) # quota
              /\ empty # quota
    /\ (gsc.pc # "idle" /\ gsc.log[1].exc.cls = "HttpError"
          /\ gsc.log[1].exc.msg = PermissionText) =>
          LET empty == GscSingle(GscResponse(0, 0))
              quota == GscSingle(GscRaises("HttpError", {"quota exceeded"}, 1))
          IN  /\ gsc.log[1].returned # empty
              /\ gsc.log[1].returned # quota
              /\ empty # quota

\* the metadata attributes of a GSCDataFrame (_metadata): there is no error
GSCDataFrame_metadata == {"dimensions", "metrics", "response_aggregation", "date_range"}

\* get_df('GSC') made one query and it answered without rows
DfGscEmpty ==
    /\ df.pc \in {"done", "raised"}
    /\ df.result = "GSC"
    /\ Len(df.gsc_log) = 1
    /\ df.gsc_log[1].kind = "ok"
    /\ df.gsc_log[1].none

\* C16: when the Search Console query returns zero rows, get_df('GSC') does
\* not raise and returns a table with zero rows whose error tag is
\* 'empty_response'.
C16_EmptyGscResponse ==
    DfGscEmpty =>
        /\ df.pc = "done"
        /\ RowCount(df.dataframe.rows) = 0
        /\ "error" \in GSCDataFrame_metadata \cap DOMAIN df.dataframe
        /\ df.dataframe.error = "empty_response"

\* the requests of this state that were built with their identifier unset:
\* was anything sent, and did the builder raise or return a marker
MissingIdHandled ==
    (IF ga4.pc # "idle" /\ ~env.ga4_property_id /\ Len(ga4.log) > 0
     THEN {[backend |-> "GA4", sent |-> ga4.log[1].sent \/ env.calls > 0,
            outcome |-> IF ga4.log[1].kind = "raise" /\ ga4.log[1].cls = "MissingID"
                        THEN "raised" ELSE "other"]}
     ELSE {})
    \cup
    (IF ga3.pc # "idle" /\ ~env.view_id /\ Len(ga3.log) > 0
     THEN {[backend |-> "GA3", sent |-> ga3.log[1].sent \/ env.calls > 0,
            outcome |-> IF ga3.log[1].error_type = "missing_view_id"
                        THEN "sentinel" ELSE "other"]}
     ELSE {})
    \cup
    (IF df.pc \in {"done", "raised"} /\ df.result \in {"GSC", "GSCQ"} /\ ~env.sc_domain
     THEN {[backend |-> "GSC", sent |-> env.calls > 0,
            outcome |-> IF df.pc = "done" /\ df.dataframe = GscNone
                        THEN "sentinel" ELSE "other"]}
     ELSE {})

KwpAttemptOutcomes ==
    {[kind |-> "ok", plan_created |-> TRUE, cls |-> "None"]}
    \cup {[kind |-> "raise", plan_created |-> c, cls |-> x] :
             c \in BOOLEAN,
             x \in {"InternalServerError", "GoogleAdsException", "Exception"}}

(***************************************************************************)
(* KeywordPlanService.get_historical_metrics_df                            *)
(***************************************************************************)
DEFAULT_MAX_RETRIES == 5

\* no dataframe / no keyword plan
NoAttempt == 0

kwp_enter(max_retries) ==
    [pc |-> "loop", max_retries |-> max_retries, retries |-> 0, complete |-> FALSE,
     df |-> NoAttempt, keyword_plan |-> NoAttempt,
     result |-> [df |-> NoAttempt, plans |-> <<>>], log |-> <<>>]

\* mutant: one attempt too many
kwp_continue_inclusive(f) == f.retries <= f.max_retries /\ ~f.complete

\* the loop condition
kwp_continue(f) == f.retries < f.max_retries /\ ~f.complete

\* one attempt, number a: success completes, InternalServerError counts a
\* retry, anything else leaves the function
kwp_attempt(f, a, o) ==
    LET f1 == [f EXCEPT !.log = Append(@, o)]
    IN  IF o.kind = "ok"
        THEN [f1 EXCEPT !.df = a, !.keyword_plan = a, !.complete = TRUE]
        ELSE IF o.cls = "InternalServerError"
        THEN [f1 EXCEPT !.retries = @ + 1]
        ELSE [f1 EXCEPT !.pc = "raised"]

\* after the loop
kwp_return(f) ==
    [f EXCEPT !.pc = "done",
              !.result = IF f.complete
                         THEN [df |-> f.df, plans |-> <<f.keyword_plan>>]
                         ELSE [df |-> NoAttempt, plans |-> <<>>]]

\* max_retries values tried
KwpMaxRetries == {0, 1, 2, DEFAULT_MAX_RETRIES}

get_historical_metrics_df_call ==
    /\ kwp.pc = "idle"
    /\ \E max_retries \in KwpMaxRetries : kwp' = kwp_enter(max_retries)
    /\ UNCHANGED <<env, ga4, ga3, gsc, df, other_vars>>

get_historical_metrics_df_attempt ==
    /\ kwp.pc = "loop"
    /\ kwp_continue(kwp)
    /\ Len(kwp.log) < MaxAttempts
    /\ \E o \in KwpAttemptOutcomes : kwp' = kwp_attempt(kwp, Len(kwp.log) + 1, o)
    /\ UNCHANGED <<env, ga4, ga3, gsc, df, other_vars>>

get_historical_metrics_df_return ==
    /\ kwp.pc = "loop"
    /\ ~kwp_continue(kwp)
    /\ kwp' = kwp_return(kwp)
    /\ UNCHANGED <<env, ga4, ga3, gsc, df, other_vars>>

InitKWP ==
    /\ env = EnvInit(MaxCalls, "free", 0, TRUE, TRUE, TRUE)
    /\ ga4 = Ga4Idle
    /\ ga3 = Ga3Idle
    /\ gsc = GscIdle
    /\ df = DfIdle
    /\ kwp = KwpIdle
    /\ OtherInit

NextKWP ==
    \/ get_historical_metrics_df_call
    \/ get_historical_metrics_df_attempt
    \/ get_historical_metrics_df_return

SpecKWP == InitKWP /\ [][NextKWP]_vars

(***************************************************************************)
(* Claims about get_historical_metrics_df                                  *)
(***************************************************************************)
KwpLog == IF kwp.pc = "idle" THEN <<>> ELSE kwp.log

KwpIsISE(o) == o.kind = "raise" /\ o.cls = "InternalServerError"

NoHint == -1

\* the N of 'Retry in N seconds' in the messages the backend sends
RetryHints == {NoHint, 0, 3, 30}

\* what one call of generate_keyword_historical_metrics does: a response, a
\* ResourceExhausted error with or without a retry hint, or another exception
IdeaAttemptOutcomes ==
    {[kind |-> "response", retry_in |-> NoHint]}
        \cup {[kind |-> "ResourceExhausted", retry_in |-> h] : h \in RetryHints}
        \cup {[kind |-> "GoogleAdsException", retry_in |-> NoHint]}

DEFAULT_WAIT_TIME == 5

wait_time_as_parsed(o) ==
    IF o.retry_in # NoHint THEN o.retry_in ELSE DEFAULT_WAIT_TIME

\* re.search(r'Retry in (\d+) seconds', ...): int(m.group(1)) + 1, else 5
wait_time(o) ==
    IF o.retry_in # NoHint THEN o.retry_in + 1 ELSE DEFAULT_WAIT_TIME

idea_enter == [pc |-> "try", response |-> None, slept |-> <<>>, log |-> <<>>]

\* while response is None
idea_continue(f) == f.response = None

\* one iteration of the loop: the call, and the sleep after ResourceExhausted
idea_attempt(f, o) ==
    LET g == [f EXCEPT !.log = Append(@, o)]
    IN  CASE o.kind = "response" -> [g EXCEPT !.response = "response"]
          [] o.kind = "ResourceExhausted" ->
                [g EXCEPT !.response = None, !.slept = Append(@, wait_time(o))]
          [] OTHER -> [g EXCEPT !.pc = "raised"]

historical_metrics_response_call ==
    /\ idea.pc = "idle"
    /\ idea' = idea_enter
    /\ UNCHANGED <<env, ga4, ga3, gsc, df, kwp, tbl, vol, col, hist, gkm, frm, cal, probe>>

historical_metrics_response_attempt ==
    /\ idea.pc = "try"
    /\ idea_continue(idea)
    /\ Len(idea.log) < MaxAttempts
    /\ \E o \in IdeaAttemptOutcomes : idea' = idea_attempt(idea, o)
    /\ UNCHANGED <<env, ga4, ga3, gsc, df, kwp, tbl, vol, col, hist, gkm, frm, cal, probe>>

historical_metrics_response_return ==
    /\ idea.pc = "try"
    /\ ~idea_continue(idea)
    /\ idea' = [idea EXCEPT !.pc = "done"]
    /\ UNCHANGED <<env, ga4, ga3, gsc, df, kwp, tbl, vol, col, hist, gkm, frm, cal, probe>>

InitIdea ==
    /\ env = EnvInit(MaxCalls, "free", 0, TRUE, TRUE, TRUE)
    /\ ga4 = Ga4Idle
    /\ ga3 = Ga3Idle
    /\ gsc = GscIdle
    /\ df = DfIdle
    /\ kwp = KwpIdle
    /\ idea = IdeaIdle
    /\ tbl = TblIdle
    /\ vol = VolIdle
    /\ col = ColIdle
    /\ hist = HistIdle
    /\ gkm = GkmIdle
    /\ frm = FrmIdle
    /\ cal = CalIdle
    /\ probe = ProbeIdle

NextIdea ==
    \/ historical_metrics_response_call
    \/ historical_metrics_response_attempt
    \/ historical_metrics_response_return

SpecIdea == InitIdea /\ [][NextIdea]_vars

(***************************************************************************)
(* Claims about _historical_metrics_response                               *)
(***************************************************************************)
IdeaLog == IF idea.pc = "idle" THEN <<>> ELSE idea.log

IdeaIsQuota(o) == o.kind = "ResourceExhausted"

\* the attempts that raised ResourceExhausted, in order
RECURSIVE IdeaQuotaErrors(_)
IdeaQuotaErrors(log) ==
    IF log = <<>> THEN <<>>
    ELSE IF IdeaIsQuota(log[1]) THEN <<log[1]>> \o IdeaQuotaErrors(Tail(log))
    ELSE IdeaQuotaErrors(Tail(log))

\* every attempt but the last raised ResourceExhausted; the loop is still
\* running exactly while every attempt so far did; it has returned exactly
\* when the last attempt was the first success, and raised exactly when the
\* last attempt raised another exception
IdeaRetryShape ==
    LET log == IdeaLog
    IN  /\ \A i \in 1..Len(log) : i < Len(log) => IdeaIsQuota(log[i])
        /\ (idea.pc = "try" /\ idea.response = None) <=>
              (idea.pc # "idle" /\ \A i \in 1..Len(log) : IdeaIsQuota(log[i]))
        /\ (idea.pc = "done" \/ (idea.pc = "try" /\ idea.response # None)) <=>
              (log # <<>> /\ log[Len(log)].kind = "response")
        /\ idea.pc = "done" => idea.response = "response"
        /\ idea.pc = "raised" <=>
              (log # <<>> /\ log[Len(log)].kind = "GoogleAdsException")

\* C11 as stated: the loop has the shape above and the wait before each
\* retry is the N of 'Retry in N seconds' when the message has one, and 5
\* seconds otherwise.
C11_QuotaRetry_Original ==
    /\ IdeaRetryShape
    /\ idea.pc # "idle" =>
          LET q == IdeaQuotaErrors(idea.log)
          IN  /\ Len(idea.slept) = Len(q)
              /\ \A i \in 1..Len(q) :
                    idea.slept[i] = IF q[i].retry_in # NoHint THEN q[i].retry_in
                                    ELSE 5

\* C11: the request is re-issued after every ResourceExhausted error without
\* a cap on the attempts; the wait before each retry is N + 1 seconds when
\* the message says 'Retry in N seconds' and 5 seconds otherwise; only a
\* successful response is returned, after the first success; any other
\* exception propagates at once.
C11_QuotaRetry ==
    /\ IdeaRetryShape
    /\ idea.pc # "idle" =>
          LET q == IdeaQuotaErrors(idea.log)
          IN  /\ Len(idea.slept) = Len(q)
              /\ \A i \in 1..Len(q) :
                    idea.slept[i] = IF q[i].retry_in # NoHint THEN q[i].retry_in + 1
                                    ELSE 5

\* three quota errors, with and without a hint, then a returned response
C11_Witness ==
    /\ idea.pc = "done"
    /\ Len(idea.log) = 4
    /\ idea.slept = <<31, 5, 4>>

(***************************************************************************)
(* googlepandas: GADataFrame with its metadata, and join_on_dimensions     *)
(*                                                                         *)
(* A table is its metadata (dimensions, metrics, join_dimensions,          *)
(* date_range, error), its column names and its rows; a row is a function  *)
(* from column names to cell values, and cell values are integers.  The    *)
(* column names of the model are none of the names __init__ rewrites       *)
(* (landingPagePath, sourceMedium, date, ...).                             *)
(***************************************************************************)
Range(seq) == {seq[i] : i \in 1..Len(seq)}

\* cell value of a column the other side of an outer merge does not have
NaN == -1

\* camel_to_snake on the column names of the model
snake_case_name(c) == IF c = "pagePath" THEN "page_path" ELSE c

\* snake_case_join_dimensions: [camel_to_snake(_) for _ in self.join_dimensions]
snake_case_list(names) == [i \in 1..Len(names) |-> snake_case_name(names[i])]

\* df_input=None
NoFrame == [none |-> TRUE, columns |-> {}, rows |-> {}]

Frame(columns, rows) == [none |-> FALSE, columns |-> columns, rows |-> rows]

\* self.rename(columns=...) over every row
rename_rows(rows, old_columns) ==
    LET new_columns == {snake_case_name(c) : c \in old_columns}
    IN  {[c \in new_columns |-> r[CHOOSE o \in old_columns : snake_case_name(o) = c]] : r \in rows}

\* self.insert(loc=0, column=column, value=value)
insert_column(rows, columns, column, value) ==
    {[c \in columns \cup {column} |-> IF c = column THEN value ELSE r[c]] : r \in rows}

\* GADataFrame.__init__
GADataFrame_init(df_input, dimensions, metrics, from_ga_response, join_dimensions, start_date, end_date, error) ==
    LET columns0 == IF df_input.none THEN Range(dimensions) \cup Range(metrics)
                    ELSE df_input.columns
        jd0 == IF df_input.none THEN snake_case_list(dimensions)
               ELSE IF from_ga_response THEN snake_case_list(join_dimensions)
               ELSE join_dimensions
        columns1 == {snake_case_name(c) : c \in columns0}
        rows1 == rename_rows(df_input.rows, columns0)
        dated == "record_date" \notin columns1
        both == dated /\ start_date # NoDate /\ end_date # NoDate
        one == dated /\ ~both /\ (start_date # NoDate \/ end_date # NoDate)
        record_date == IF end_date # NoDate THEN end_date ELSE start_date
        columns2 == IF both \/ one THEN columns1 \cup {"record_date"} ELSE columns1
        rows2 == IF both \/ one
                 THEN insert_column(rows1, columns1, "record_date", record_date)
                 ELSE rows1
        columns3 == IF both THEN columns2 \cup {"record_date_start"} ELSE columns2
        rows3 == IF both
                 THEN insert_column(rows2, columns2, "record_date_start", start_date)
                 ELSE rows2
        jd1 == IF both THEN jd0 \o <<"record_date", "record_date_start">>
               ELSE IF one THEN jd0 \o <<"record_date">>
               ELSE jd0
    IN  [dimensions |-> dimensions,
         metrics |-> metrics,
         join_dimensions |-> jd1,
         date_range |-> [start |-> IF start_date # NoDate THEN start_date ELSE TODAY,
                         end |-> IF end_date # NoDate THEN end_date ELSE TODAY],
         error |-> error,
         columns |-> columns3,
         rows |-> rows3]

\* from_standard_analytics_response on a response with these rows
from_standard_analytics_response(rows, dimensions, metrics, start_date, end_date, error_type) ==
    GADataFrame_init(IF rows = {} THEN NoFrame
                     ELSE Frame(Range(dimensions) \cup Range(metrics), rows),
                     dimensions, metrics, rows # {}, dimensions,
                     start_date, end_date, error_type)

\* the suffix pd.merge gives a column both sides have outside the keys
suffixed(c, overlap, suffix) == IF c \in overlap THEN c \o suffix ELSE c

\* pd.merge(left, right, how=how, on=on) for how in 'outer', 'left'
merge_how(left, right, on, how) ==
    LET keys == Range(on)
        lcols == left.columns \ keys
        rcols == right.columns \ keys
        overlap == lcols \cap rcols
        lname(c) == suffixed(c, overlap, "_x")
        rname(c) == suffixed(c, overlap, "_y")
        out_columns == keys \cup {lname(c) : c \in lcols} \cup {rname(c) : c \in rcols}
        matches(l, r) == \A k \in keys : l[k] = r[k]
        row(l, r, has_l, has_r) ==
            [c \in out_columns |->
                IF c \in keys THEN (IF has_l THEN l[c] ELSE r[c])
                ELSE IF \E o \in lcols : lname(o) = c
                     THEN (IF has_l THEN l[CHOOSE o \in lcols : lname(o) = c] ELSE NaN)
                     ELSE (IF has_r THEN r[CHOOSE o \in rcols : rname(o) = c] ELSE NaN)]
    IN  Frame(out_columns,
              {row(l, r, TRUE, TRUE) : <<l, r>> \in {lr \in left.rows \X right.rows :
                                                    matches(lr[1], lr[2])}}
                \cup {row(l, l, TRUE, FALSE) :
                        l \in {x \in left.rows : \A r \in right.rows : ~matches(x, r)}}
                \cup {row(r, r, FALSE, TRUE) :
                        r \in {x \in right.rows : how = "outer" /\
                                                   \A l \in left.rows : ~matches(l, x)}})

merge_left(left, right, on) == merge_how(left, right, on, "left")

\* pd.merge(self, dataframe, how=how, on=self.join_dimensions), how="outer"
merge(left, right, on) == merge_how(left, right, on, "outer")

\* list(set(a + b)), in the order the set happens to have
RECURSIVE list_of_set(_)
list_of_set(S) ==
    IF S = {} THEN <<>>
    ELSE LET x == CHOOSE y \in S : TRUE IN <<x>> \o list_of_set(S \ {x})

\* if not set(self.join_dimensions) == set(dataframe.join_dimensions)
join_dimensions_differ_as_lists(self, dataframe) ==
    self.join_dimensions # dataframe.join_dimensions

join_dimensions_differ(self, dataframe) ==
    Range(self.join_dimensions) # Range(dataframe.join_dimensions)

\* the GADataFrame( ... ) call of join_on_dimensions
join_on_dimensions_out(self, dataframe) ==
    GADataFrame_init(merge(self, dataframe, self.join_dimensions),
                     list_of_set(Range(self.dimensions) \cup Range(dataframe.dimensions)),
                     list_of_set(Range(self.metrics) \cup Range(dataframe.metrics)),
                     FALSE,
                     self.join_dimensions,
                     Min(self.date_range.start, dataframe.date_range.start),
                     Max(self.date_range.end, dataframe.date_range.end),
                     join_error(self.error, dataframe.error))

\* self.join_dimensions of the new table is the list object the left table
\* holds: what __init__ appends to it (add_join_dimensions extends in place)
\* is appended to the left table's join_dimensions too
join_on_dimensions_run(f) ==
    IF join_dimensions_differ(f.self, f.dataframe)
    THEN [f EXCEPT !.pc = "raised", !.raised = "ValueError"]
    ELSE LET out == join_on_dimensions_out(f.self, f.dataframe)
         IN  [f EXCEPT !.pc = "done", !.out = out,
                       !.self.join_dimensions = out.join_dimensions]

\* the frame of one self.join_on_dimensions(dataframe): left and right are
\* the two tables as they were at the call
join_on_dimensions_enter(left, right) ==
    [pc |-> "start", left |-> left, right |-> right, self |-> left,
     dataframe |-> right, out |-> NoFrame, raised |-> None]

TableDimensions ==
    {<<"country">>, <<"country", "pagePath">>, <<"pagePath", "country">>,
     <<"country", "country">>}

TableMetrics == {<<"sessions">>, <<"users">>}

TableDates == {<<NoDate, NoDate>>, <<2, 3>>, <<1, 4>>}

TableErrors == {None, "", "empty_response", "PermissionDenied", "Error"}

\* country codes and the value of every metric in a row of that country
TableRows == {<<>>, <<<<826, 1>>>>, <<<<826, 2>>, <<840, 1>>>>}

response_rows(content, dimensions, metrics) ==
    {[c \in Range(dimensions) \cup Range(metrics) |->
         IF c = "country" THEN content[i][1]
         ELSE IF c = "pagePath" THEN 1
         ELSE content[i][2]] : i \in 1..Len(content)}

Tables ==
    {from_standard_analytics_response(response_rows(content, d, m), d, m,
                                      dates[1], dates[2], e) :
        d \in TableDimensions, m \in TableMetrics, dates \in TableDates,
        e \in TableErrors, content \in TableRows}

join_on_dimensions_call ==
    /\ tbl.pc = "start"
    /\ tbl' = join_on_dimensions_run(tbl)
    /\ UNCHANGED <<env, ga4, ga3, gsc, df, kwp, idea, vol, col, hist, gkm, frm, cal, probe>>

InitJoin ==
    /\ env = EnvInit(MaxCalls, "free", 0, TRUE, TRUE, TRUE)
    /\ ga4 = Ga4Idle
    /\ ga3 = Ga3Idle
    /\ gsc = GscIdle
    /\ df = DfIdle
    /\ kwp = KwpIdle
    /\ idea = IdeaIdle
    /\ vol = VolIdle
    /\ col = ColIdle
    /\ hist = HistIdle
    /\ gkm = GkmIdle
    /\ frm = FrmIdle
    /\ cal = CalIdle
    /\ probe = ProbeIdle
    /\ \E left \in Tables, right \in Tables :
          tbl = join_on_dimensions_enter(left, right)

NextJoin == join_on_dimensions_call

SpecJoin == InitJoin /\ [][NextJoin]_vars

(***************************************************************************)
(* Claims about join_on_dimensions                                         *)
(***************************************************************************)
JoinCalled == tbl.pc \in {"done", "raised"}

\* C12: the join fails with the mismatched-join-dimensions error, producing
\* no table and leaving both inputs as they were, exactly when the set of
\* the left table's join keys differs from the set of the right table's;
\* with equal sets, in any order and with or without repeats, it does not.
C12_JoinPrecondition ==
    JoinCalled =>
        /\ tbl.pc = "raised" <=>
              Range(tbl.left.join_dimensions) # Range(tbl.right.join_dimensions)
        /\ tbl.pc = "raised" =>
              /\ tbl.raised = "ValueError"
              /\ tbl.out = NoFrame
              /\ tbl.self = tbl.left
              /\ tbl.dataframe = tbl.right

\* equal key sets held in lists that differ: the join goes through
C12_Witness ==
    /\ tbl.pc = "done"
    /\ tbl.left.join_dimensions # tbl.right.join_dimensions
    /\ Len(tbl.left.join_dimensions) # Len(tbl.right.join_dimensions)

JoinDone == tbl.pc = "done"

\* C13: the joined table carries the first tag, looking at the left table and
\* then at the right one, that is non-empty and is not 'empty_response', and
\* carries no tag only when neither input has such a tag.
C13_JoinErrorTag ==
    JoinDone =>
        LET first == join_error_first_real(tbl.left.error, tbl.right.error)
        IN  IF first = None THEN ~Truthy(tbl.out.error)
            ELSE tbl.out.error = first

\* C14: the joined table has the union of the inputs' dimension sets, the
\* union of their metric sets, the join-key set of the inputs, and the date
\* range from the earlier start to the later end.
C14_JoinMetadata ==
    JoinDone =>
        /\ Range(tbl.out.dimensions) =
              Range(tbl.left.dimensions) \cup Range(tbl.right.dimensions)
        /\ Range(tbl.out.metrics) =
              Range(tbl.left.metrics) \cup Range(tbl.right.metrics)
        /\ Range(tbl.out.join_dimensions) = Range(tbl.left.join_dimensions)
        /\ Range(tbl.out.join_dimensions) = Range(tbl.right.join_dimensions)
        /\ tbl.out.date_range.start =
              Min(tbl.left.date_range.start, tbl.right.date_range.start)
        /\ tbl.out.date_range.end =
              Max(tbl.left.date_range.end, tbl.right.date_range.end)

\* the columns of a table outside its join keys
value_columns(t) == t.columns \ Range(t.join_dimensions)

\* the join taken the other way round, on the tables as they were at the call
JoinSwapped == join_on_dimensions_out(tbl.right, tbl.left)

\* C15 as stated: for two tables with equal join-key sets the outer join
\* left-with-right and the outer join right-with-left hold the same rows,
\* up to row and column order.
C15_JoinCommutes_Original ==
    JoinDone =>
        /\ tbl.out.columns = JoinSwapped.columns
        /\ tbl.out.rows = JoinSwapped.rows

\* C15: for two tables with equal join-key sets and no column in common
\* outside the join keys, the outer join left-with-right and the outer join
\* right-with-left hold the same rows, up to row and column order.
C15_JoinCommutes ==
    (JoinDone /\ value_columns(tbl.left) \cap value_columns(tbl.right) = {}) =>
        /\ tbl.out.columns = JoinSwapped.columns
        /\ tbl.out.rows = JoinSwapped.rows

\* two tables with different metrics, one key in both and one key in the
\* left table only
C15_Witness ==
    /\ JoinDone
    /\ tbl.left.metrics = <<"sessions">>
    /\ tbl.right.metrics = <<"users">>
    /\ Cardinality(tbl.left.rows) = 2
    /\ Cardinality(tbl.right.rows) = 1
    /\ Cardinality(tbl.out.rows) = 2
    /\ \E r \in tbl.out.rows : r["users"] = NaN
    /\ \E r \in tbl.out.rows : r["users"] # NaN /\ r["sessions"] # NaN

(***************************************************************************)
(* kwp_wrappers: the volume-trend statistics                               *)
(*                                                                         *)
(* The argument is a list of monthly volumes or something that is no list. *)
(* A result is what the function returns or the exception it raises; a     *)
(* mean is kept as the pair of sum and count, a slope as the pair of       *)
(* numerator and denominator.                                              *)
(***************************************************************************)
\* months in the longest list tried
MaxMonths == 13

NotAList == [is_list |-> FALSE, items |-> <<>>]

List(items) == [is_list |-> TRUE, items |-> items]

Returns(kind, value) == [raised |-> None, kind |-> kind, value |-> value]

ReturnsNone == Returns("None", <<>>)

RaisesIn(cls) == [raised |-> cls, kind |-> "raise", value |-> <<>>]

\* items[-k]: IndexError when the list has fewer than k items
index_from_end(items, k) ==
    IF k <= Len(items) THEN Returns("int", <<items[Len(items) - k + 1]>>)
    ELSE RaisesIn("IndexError")

\* items[-k:]
last_items(items, k) == SubSeq(items, Max(1, Len(items) - k + 1), Len(items))

RECURSIVE sum(_)
sum(items) == IF items = <<>> THEN 0 ELSE Head(items) + sum(Tail(items))

\* np.mean(items): sum and count
mean(items) == Returns("float", <<sum(items), Len(items)>>)

\* np.polyfit(x[-3:], y[-3:], deg=1)[0] / y.mean(): the least-squares slope
\* over the last points and the mean of all.  With a single point the fit is
\* rank deficient: numpy warns and hands back what the solver gives, or the
\* solver fails.
trend_coef(items) ==
    LET y == last_items(items, 3)
        n == Len(y)
    IN  IF n = 1 THEN {Returns("float", <<"nan">>), RaisesIn("LinAlgError")}
        ELSE IF n = 2 THEN {Returns("float", <<y[2] - y[1], 1, sum(items), Len(items)>>)}
        ELSE {Returns("float", <<y[3] - y[1], 2, sum(items), Len(items)>>)}

guard_is_list(volume_trends) == ~volume_trends.is_list

guard_empty(volume_trends) == Len(volume_trends.items) = 0

guard_shorter(volume_trends, n) == Len(volume_trends.items) < n

_three_month_trend_coef(volume_trends) ==
    IF guard_is_list(volume_trends) THEN {ReturnsNone}
    ELSE IF guard_empty(volume_trends) THEN {ReturnsNone}
    ELSE trend_coef(volume_trends.items)

_latest_volume(volume_trends) ==
    IF guard_is_list(volume_trends) THEN {ReturnsNone}
    ELSE IF guard_empty(volume_trends) THEN {ReturnsNone}
    ELSE {index_from_end(volume_trends.items, 1)}

_previous_volume(volume_trends) ==
    IF guard_is_list(volume_trends) THEN {ReturnsNone}
    ELSE IF guard_empty(volume_trends) THEN {ReturnsNone}
    ELSE {index_from_end(volume_trends.items, 2)}

_last_year_volume(volume_trends) ==
    IF guard_is_list(volume_trends) THEN {ReturnsNone}
    ELSE IF guard_shorter(volume_trends, 12) THEN {ReturnsNone}
    ELSE {index_from_end(volume_trends.items, 12)}

_volume_3monthavg(volume_trends) ==
    IF guard_is_list(volume_trends) THEN {ReturnsNone}
    ELSE IF guard_empty(volume_trends) THEN {ReturnsNone}
    ELSE {mean(last_items(volume_trends.items, 3))}

_volume_6monthavg(volume_trends) ==
    IF guard_is_list(volume_trends) THEN {ReturnsNone}
    ELSE IF guard_empty(volume_trends) THEN {ReturnsNone}
    ELSE {mean(last_items(volume_trends.items, 6))}

_volume_12monthavg(volume_trends) ==
    IF guard_is_list(volume_trends) THEN {ReturnsNone}
    ELSE IF guard_empty(volume_trends) THEN {ReturnsNone}
    ELSE {mean(last_items(volume_trends.items, 12))}

TrendStatistics ==
    {"_three_month_trend_coef", "_latest_volume", "_previous_volume",
     "_last_year_volume", "_volume_3monthavg", "_volume_6monthavg",
     "_volume_12monthavg"}

trend_statistic(fn, volume_trends) ==
    CASE fn = "_three_month_trend_coef" -> _three_month_trend_coef(volume_trends)
      [] fn = "_latest_volume" -> _latest_volume(volume_trends)
      [] fn = "_previous_volume" -> _previous_volume(volume_trends)
      [] fn = "_last_year_volume" -> _last_year_volume(volume_trends)
      [] fn = "_volume_3monthavg" -> _volume_3monthavg(volume_trends)
      [] fn = "_volume_6monthavg" -> _volume_6monthavg(volume_trends)
      [] fn = "_volume_12monthavg" -> _volume_12monthavg(volume_trends)

\* the volume lists tried: 10, 20, 30, ...; a flat list; a list of zeros
VolumeLists ==
    {[i \in 1..n |-> 10 * i] : n \in 0..MaxMonths}
        \cup {[i \in 1..n |-> 5] : n \in 0..MaxMonths}
        \cup {[i \in 1..n |-> 0] : n \in 0..MaxMonths}

VolumeInputs == {NotAList} \cup {List(items) : items \in VolumeLists}

trend_statistic_call ==
    /\ vol.pc = "idle"
    /\ \E fn \in TrendStatistics, volume_trends \in VolumeInputs :
          \E result \in trend_statistic(fn, volume_trends) :
             vol' = [pc |-> "done", fn |-> fn, volume_trends |-> volume_trends,
                     result |-> result]
    /\ UNCHANGED <<env, ga4, ga3, gsc, df, kwp, idea, tbl, col, hist, gkm, frm, cal, probe>>

InitVolume ==
    /\ env = EnvInit(MaxCalls, "free", 0, TRUE, TRUE, TRUE)
    /\ ga4 = Ga4Idle
    /\ ga3 = Ga3Idle
    /\ gsc = GscIdle
    /\ df = DfIdle
    /\ kwp = KwpIdle
    /\ idea = IdeaIdle
    /\ tbl = TblIdle
    /\ vol = VolIdle
    /\ col = ColIdle
    /\ hist = HistIdle
    /\ gkm = GkmIdle
    /\ frm = FrmIdle
    /\ cal = CalIdle
    /\ probe = ProbeIdle

NextVolume == trend_statistic_call

SpecVolume == InitVolume /\ [][NextVolume]_vars

(***************************************************************************)
(* Claims about the volume-trend statistics                                *)
(***************************************************************************)
VolDone(fn) == vol.pc = "done" /\ vol.fn = fn

VolItems == vol.volume_trends.items

VolLen(n) == vol.volume_trends.is_list /\ Len(VolItems) = n

\* C18: on a list of exactly 12 monthly volumes _latest_volume returns the
\* last element, _previous_volume the second to last and _last_year_volume
\* None; on a list of 11 volumes _last_year_volume returns None too.
C18_TwelveMonthWindow ==
    /\ (VolDone("_latest_volume") /\ VolLen(12)) =>
          vol.result = Returns("int", <<VolItems[12]>>)
    /\ (VolDone("_previous_volume") /\ VolLen(12)) =>
          vol.result = Returns("int", <<VolItems[11]>>)
    /\ (VolDone("_last_year_volume") /\ VolLen(12)) => vol.result = ReturnsNone
    /\ (VolDone("_last_year_volume") /\ VolLen(11)) => vol.result = ReturnsNone

\* the number of trailing entries each statistic reads
window(fn) ==
    CASE fn = "_three_month_trend_coef" -> 3
      [] fn = "_latest_volume" -> 1
      [] fn = "_previous_volume" -> 2
      [] fn = "_last_year_volume" -> 12
      [] fn = "_volume_3monthavg" -> 3
      [] fn = "_volume_6monthavg" -> 6
      [] fn = "_volume_12monthavg" -> 12

\* C19: every trend statistic returns None, and does not raise, when its
\* input is not a list, is an empty list, or is shorter than the window the
\* statistic reads.
C19_TrendGuards ==
    (vol.pc = "done" /\ (~vol.volume_trends.is_list \/ Len(VolItems) < window(vol.fn))) =>
        vol.result = ReturnsNone

(***************************************************************************)
(* utils/general_utils.py: camel_to_snake                                  *)
(*                                                                         *)
(* A Python str is modelled as a sequence of one-character strings.        *)
(***************************************************************************)
MaxNameLen == 4

ASCII_UPPERCASE ==
    <<"A", "B", "C", "D", "E", "F", "G", "H", "I", "J", "K", "L", "M",
      "N", "O", "P", "Q", "R", "S", "T", "U", "V", "W", "X", "Y", "Z">>

ASCII_LOWERCASE ==
    <<"a", "b", "c", "d", "e", "f", "g", "h", "i", "j", "k", "l", "m",
      "n", "o", "p", "q", "r", "s", "t", "u", "v", "w", "x", "y", "z">>

\* the character class [A-Z] of RE_C2S
is_upper(ch) == \E i \in DOMAIN ASCII_UPPERCASE : ASCII_UPPERCASE[i] = ch

\* str.lower() on one character
lower_char(ch) ==
    IF is_upper(ch)
    THEN ASCII_LOWERCASE[CHOOSE i \in DOMAIN ASCII_UPPERCASE : ASCII_UPPERCASE[i] = ch]
    ELSE ch

\* str.lower()
lower(string) == [i \in DOMAIN string |-> lower_char(string[i])]

\* a pattern that lacks the lookbehind (?<!^): it matches before a capital
\* at the start of the string as well
RE_C2S_matches_at_start_too(string, p) == is_upper(string[p])

\* RE_C2S = (?<!^)(?=[A-Z]): the empty match just before the p-th character
\* (counted from 1) when that is not the start of the string and the
\* character is a capital
RE_C2S_matches(string, p) == p > 1 /\ is_upper(string[p])

\* RE_C2S.sub('_', string), from the p-th character on
RECURSIVE RE_C2S_sub_from(_, _)
RE_C2S_sub_from(string, p) ==
    IF p > Len(string) THEN <<>>
    ELSE (IF RE_C2S_matches(string, p) THEN <<"_">> ELSE <<>>)
            \o <<string[p]>> \o RE_C2S_sub_from(string, p + 1)

RE_C2S_sub(string) == RE_C2S_sub_from(string, 1)

camel_to_snake(string) == lower(RE_C2S_sub(string))

landingPagePath ==
    <<"l", "a", "n", "d", "i", "n", "g", "P", "a", "g", "e", "P", "a", "t", "h">>

landing_page_path ==
    <<"l", "a", "n", "d", "i", "n", "g", "_", "p", "a", "g", "e", "_", "p", "a",
      "t", "h">>

\* the characters the column names are drawn from: lower case, upper case,
\* an underscore and a digit
NameChars == {"p", "P", "I", "_", "1"}

RECURSIVE NamesOfLen(_)
NamesOfLen(n) ==
    IF n = 0 THEN {<<>>}
    ELSE {<<ch>> \o rest : ch \in NameChars, rest \in NamesOfLen(n - 1)}

ColumnNames ==
    UNION {NamesOfLen(n) : n \in 0..MaxNameLen} \cup {landingPagePath}

\* camel_to_snake(string) on a column name
camel_to_snake_call ==
    /\ col.pc = "idle"
    /\ \E string \in ColumnNames :
          col' = [pc |-> "once", string |-> string,
                  result |-> camel_to_snake(string)]
    /\ UNCHANGED <<env, ga4, ga3, gsc, df, kwp, idea, tbl, vol, hist, gkm, frm, cal, probe>>

\* camel_to_snake applied to its own result
camel_to_snake_again ==
    /\ col.pc = "once"
    /\ col' = [pc |-> "twice", string |-> col.string, once |-> col.result,
               result |-> camel_to_snake(col.result)]
    /\ UNCHANGED <<env, ga4, ga3, gsc, df, kwp, idea, tbl, vol, hist, gkm, frm, cal, probe>>

InitC2S ==
    /\ env = EnvInit(MaxCalls, "free", 0, TRUE, TRUE, TRUE)
    /\ ga4 = Ga4Idle
    /\ ga3 = Ga3Idle
    /\ gsc = GscIdle
    /\ df = DfIdle
    /\ kwp = KwpIdle
    /\ idea = IdeaIdle
    /\ tbl = TblIdle
    /\ vol = VolIdle
    /\ col = ColIdle
    /\ hist = HistIdle
    /\ gkm = GkmIdle
    /\ frm = FrmIdle
    /\ cal = CalIdle
    /\ probe = ProbeIdle

NextC2S == camel_to_snake_call \/ camel_to_snake_again

SpecC2S == InitC2S /\ [][NextC2S]_vars

(***************************************************************************)
(* Claims about camel_to_snake                                             *)
(***************************************************************************)
\* the number of capitals among the characters 2..p of the string
capitals_upto(string, p) ==
    Cardinality({q \in 2..p : is_upper(string[q])})

\* where the p-th character of the string lands in the converted name
position_in_result(string, p) == p + capitals_upto(string, p)

\* the result is the string with one underscore in front of every capital
\* that is not the first character, and every character lower-cased
UnderscoreBeforeCapitals(string, result) ==
    /\ Len(result) = Len(string) + capitals_upto(string, Len(string))
    /\ \A p \in DOMAIN string :
          /\ result[position_in_result(string, p)] = lower_char(string[p])
          /\ (p > 1 /\ is_upper(string[p])) =>
                result[position_in_result(string, p) - 1] = "_"

\* C20: camel_to_snake is idempotent: converting a converted column name
\* leaves it unchanged; the converted name has no upper-case letter, has an
\* underscore in front of every capital of the original except a capital at
\* position 0, and 'landingPagePath' becomes 'landing_page_path'.
C20_CamelToSnake ==
    /\ col.pc = "once" =>
          /\ \A i \in DOMAIN col.result : ~is_upper(col.result[i])
          /\ UnderscoreBeforeCapitals(col.string, col.result)
          /\ col.string = landingPagePath => col.result = landing_page_path
    /\ col.pc = "twice" => col.result = col.once

C20_Witness ==
    /\ col.pc = "twice"
    /\ col.string = landingPagePath
    /\ col.once = landing_page_path
    /\ col.result = landing_page_path

(***************************************************************************)
(* Claims about the error tag of get_ga4_response                          *)
(***************************************************************************)
\* C21: the response get_ga4_response returns has an error_type only if it
\* has an error: after a page attempt raised a generic exception and a retry
\* fetched the page, a response with rows has error None and error_type None.
C21_FinalOutcomeTag ==
    ga4.pc = "done" =>
        (ga4.result.error_type # None => ga4.result.error # NoException)

(***************************************************************************)
(* Claims about the empty-response tag of _get_analytics_df                *)
(***************************************************************************)
\* C22: a Table the GA3/GA4 path of get_df returns is tagged
\* 'empty_response' only if it has no rows, and a fetch that returned no
\* rows and no other error yields a zero-row Table tagged 'empty_response'.
C22_EmptyResponseTag ==
    (df.pc = "done" /\ df.result \in {"GA3", "GA4"}) =>
        /\ df.dataframe.error = "empty_response" =>
              RowCount(df.dataframe.rows) = 0
        /\ (/\ Len(df.responses) >= 1
            /\ ~df.breaking_error
            /\ RowCount(df.dataframe.rows) = 0) =>
              df.dataframe.error = "empty_response"

(***************************************************************************)
(* Claims about the metrics chunks of _get_analytics_df                    *)
(***************************************************************************)
\* the response carries an error_type that is not an empty-response one
DfBreaking(response) ==
    response.error_type # None /\ response.error_type # "empty_response"

DfAnalytics == df.pc \in {"chunk", "fetch", "done"} /\ df.result \in {"GA3", "GA4"}

DfRequested == [i \in DOMAIN df.metrics |-> strip_ga(df.metrics[i])]

DfFetched == expand_list(df.fetches)

\* C28 as stated: the run issues one fetch per chunk of at most 10 metrics,
\* the chunks fetched, concatenated in request order, equal the requested
\* metric list, and an empty metric list results in no fetch.
C28_MetricChunking_Original ==
    (DfAnalytics /\ df.pc = "done") =>
        /\ \A i \in 1..Len(df.fetches) : Len(df.fetches[i]) <= METRICS_PER_REQUEST
        /\ DfFetched = df.metrics
        /\ df.metrics = <<>> => df.fetches = <<>>

\* C28: every fetch carries between 1 and 10 metrics, every fetch that is
\* followed by another carries 10, and the chunks fetched so far,
\* concatenated in request order, are the first requested metrics with a
\* leading 'ga:' removed; when the run returns without a breaking error they
\* are all the requested metrics; an empty metric list results in no fetch.
C28_MetricChunking ==
    DfAnalytics =>
        /\ \A i \in 1..Len(df.fetches) :
              /\ Len(df.fetches[i]) >= 1
              /\ Len(df.fetches[i]) <= METRICS_PER_REQUEST
              /\ i < Len(df.fetches) => Len(df.fetches[i]) = METRICS_PER_REQUEST
        /\ Len(DfFetched) <= Len(DfRequested)
        /\ DfFetched = SubSeq(DfRequested, 1, Len(DfFetched))
        /\ (df.pc = "done" /\ ~df.breaking_error) => DfFetched = DfRequested
        /\ df.metrics = <<>> => df.fetches = <<>>

C28_Witness ==
    /\ DfAnalytics
    /\ df.pc = "done"
    /\ ~df.breaking_error
    /\ Len(df.fetches) = 2
    /\ Len(df.fetches[1]) = 10
    /\ Len(df.fetches[2]) = 1
    /\ DfFetched = DfRequested

(***************************************************************************)
(* Claims about the row limit of get_ga4_response                          *)
(***************************************************************************)
\* C24: for a caller limit L >= 1 the response get_ga4_response returns
\* holds at most L rows (the backend never returns more rows in a page than
\* the request asked for).
C24_RowLimit ==
    (ga4.pc = "done" /\ ga4.limit_arg # NoLimit /\ ga4.limit_arg >= 1) =>
        RowCount(ga4.result.rows) <= ga4.limit_arg

(***************************************************************************)
(* KeywordPlanService.generate_historical_metrics                          *)
(*                                                                         *)
(* Python dicts are objects: the list the function returns holds           *)
(* references, so the model keeps a heap (object id -> dict) and the list  *)
(* of ids, and reads the dicts when the function returns.                  *)
(***************************************************************************)
MaxKeywords == 3

MaxResponseMetrics == 2

\* the id of the object empty_metric; the dict built for response.metrics[i]
\* has id i
EMPTY_METRIC_ID == 0

\* keywords, the queries they strip to, and the queries the backend answers
HistKeywords == {"k1", "k2", "k3"}

HistQueries == {"q1", "q2"}

HistResponseQueries == {"q1", "q2", "q9"}

\* a metric of response_historical.metrics
HistoricalMetric(query) == [search_query |-> query, avg_monthly_searches |-> 10]

\* the dict built for a metric of the response
metric_dict(_m) == [query |-> _m.search_query, avg_searches |-> _m.avg_monthly_searches]

empty_metric == [query |-> "", avg_searches |-> 0]

\* the objects alive after the list comprehension and empty_metric = {...}
hist_heap(response) ==
    [id \in 0..Len(response) |->
        IF id = EMPTY_METRIC_ID THEN empty_metric ELSE metric_dict(response[id])]

\* metrics_dict = {d.get("query"): d for d in metrics}: the keys in the order
\* of their first occurrence, each with the last object of that query
metrics_dict(response) ==
    LET firsts == SelectSeq([i \in DOMAIN response |-> i],
                            LAMBDA i : \A j \in 1..(i - 1) :
                                          response[j].search_query # response[i].search_query)
    IN  [n \in DOMAIN firsts |->
            [query |-> response[firsts[n]].search_query,
             id |-> CHOOSE i \in DOMAIN response :
                       /\ response[i].search_query = response[firsts[n]].search_query
                       /\ \A j \in DOMAIN response :
                             response[j].search_query = response[i].search_query => j <= i]]

\* metrics_dict.get(query): the id of the object, or -1 for None
metrics_dict_get(md, query) ==
    IF \E n \in DOMAIN md : md[n].query = query
    THEN md[CHOOSE n \in DOMAIN md : md[n].query = query].id
    ELSE -1

\* for keyword, query in stripped_keyword_dict.items(): from the n-th item on
RECURSIVE keyword_loop(_, _, _, _, _)
keyword_loop(items, n, md, heap, metrics) ==
    IF n > Len(items) THEN [heap |-> heap, metrics |-> metrics]
    ELSE LET keyword == items[n].keyword
             query == items[n].query
             found == metrics_dict_get(md, query)
             d == IF found # -1 THEN found ELSE EMPTY_METRIC_ID
             heap1 == IF found # -1
                      THEN [heap EXCEPT ![d] = Update(@, [keyword |-> keyword,
                                                         status |-> "OBTAINED"])]
                      ELSE [heap EXCEPT ![d] = Update(@, [keyword |-> keyword,
                                                         query |-> query,
                                                         status |-> "NOT OBTAINED"])]
         IN  keyword_loop(items, n + 1, md, heap1, Append(metrics, d))

\* for query, d in metrics_dict.items(): from the n-th item on
RECURSIVE additional_loop(_, _, _, _, _)
additional_loop(items, n, md, heap, metrics) ==
    IF n > Len(md) THEN [heap |-> heap, metrics |-> metrics]
    ELSE IF \A i \in DOMAIN items : items[i].query # md[n].query
    THEN additional_loop(items, n + 1, md,
                         [heap EXCEPT ![md[n].id] = Update(@, [keyword |-> "",
                                                              status |-> "ADDITIONAL"])],
                         Append(metrics, md[n].id))
    ELSE additional_loop(items, n + 1, md, heap, metrics)

\* generate_historical_metrics: the list returned, as its caller reads it
generate_historical_metrics(stripped_keyword_dict, response) ==
    LET md == metrics_dict(response)
        s1 == keyword_loop(stripped_keyword_dict, 1, md, hist_heap(response), <<>>)
        s2 == additional_loop(stripped_keyword_dict, 1, md, s1.heap, s1.metrics)
    IN  [i \in DOMAIN s2.metrics |-> s2.heap[s2.metrics[i]]]

\* dicts keyword -> query as item lists, keys distinct
RECURSIVE StrippedKeywordDicts(_)
StrippedKeywordDicts(n) ==
    IF n = 0 THEN {<<>>}
    ELSE LET shorter == StrippedKeywordDicts(n - 1)
         IN  shorter \cup
             {Append(d, [keyword |-> k, query |-> q]) :
                 d \in {x \in shorter : Len(x) = n - 1}, k \in HistKeywords, q \in HistQueries}

HistDicts ==
    {d \in StrippedKeywordDicts(MaxKeywords) :
        \A i, j \in DOMAIN d : d[i].keyword = d[j].keyword => i = j}

RECURSIVE HistResponses(_)
HistResponses(n) ==
    IF n = 0 THEN {<<>>}
    ELSE LET shorter == HistResponses(n - 1)
         IN  shorter \cup
             {Append(r, HistoricalMetric(q)) :
                 r \in {x \in shorter : Len(x) = n - 1}, q \in HistResponseQueries}

generate_historical_metrics_call ==
    /\ hist.pc = "idle"
    /\ \E stripped_keyword_dict \in HistDicts, response \in HistResponses(MaxResponseMetrics) :
          hist' = [pc |-> "done", stripped_keyword_dict |-> stripped_keyword_dict,
                   response |-> response,
                   metrics |-> generate_historical_metrics(stripped_keyword_dict, response)]
    /\ UNCHANGED <<env, ga4, ga3, gsc, df, kwp, idea, tbl, vol, col, gkm, frm, cal, probe>>

InitHist ==
    /\ env = EnvInit(MaxCalls, "free", 0, TRUE, TRUE, TRUE)
    /\ ga4 = Ga4Idle
    /\ ga3 = Ga3Idle
    /\ gsc = GscIdle
    /\ df = DfIdle
    /\ kwp = KwpIdle
    /\ OtherInit

NextHist == generate_historical_metrics_call

SpecHist == InitHist /\ [][NextHist]_vars

(***************************************************************************)
(* Claims about generate_historical_metrics                                *)
(***************************************************************************)
\* the records of the list returned that carry the keyword / the query
HistRecordsOfKeyword(keyword) ==
    {i \in DOMAIN hist.metrics : hist.metrics[i].keyword = keyword}

HistRecordsOfQuery(query) ==
    {i \in DOMAIN hist.metrics : hist.metrics[i].query = query}

HistAnswered(query) ==
    \E i \in DOMAIN hist.response : hist.response[i].search_query = query

\* C25: the list generate_historical_metrics returns has, for every keyword
\* of stripped_keyword_dict, exactly one record with that keyword; its query
\* is the stripped form of the keyword and its status is 'OBTAINED' when the
\* backend returned metrics for that query and 'NOT OBTAINED' otherwise; and
\* every backend query that is no keyword's stripped form has exactly one
\* record, of status 'ADDITIONAL'.
C25_OneRecordPerKeyword ==
    hist.pc = "done" =>
        /\ \A n \in DOMAIN hist.stripped_keyword_dict :
              LET item == hist.stripped_keyword_dict[n]
                  records == HistRecordsOfKeyword(item.keyword)
              IN  /\ Cardinality(records) = 1
                  /\ \A i \in records :
                        /\ hist.metrics[i].query = item.query
                        /\ hist.metrics[i].status =
                              IF HistAnswered(item.query) THEN "OBTAINED" ELSE "NOT OBTAINED"
        /\ \A n \in DOMAIN hist.response :
              LET query == hist.response[n].search_query
                  records == HistRecordsOfQuery(query)
              IN  (\A i \in DOMAIN hist.stripped_keyword_dict :
                      hist.stripped_keyword_dict[i].query # query) =>
                     /\ Cardinality(records) = 1
                     /\ \A i \in records : hist.metrics[i].status = "ADDITIONAL"

(***************************************************************************)
(* KeywordPlanService.get_keyword_metrics (concat_locations=False): one    *)
(* call of get_historical_metrics_df per sublist of 2,000 keywords         *)
(*                                                                         *)
(* gkm.account is the set of keyword plans on the customer account that    *)
(* the invocation created: plan <<i, a>> is the one attempt a of the fetch *)
(* of sublist i added.                                                     *)
(***************************************************************************)
MaxSublists == 2

gkm_enter(n) ==
    [pc |-> "loop", n |-> n, sublist_index |-> 0, frames |-> <<>>,
     keyword_plans |-> <<>>, account |-> {}, created |-> {}]

\* the plans the attempts of the fetch of sublist i added to the account
plans_added(i, log) == {<<i, a>> : a \in {x \in DOMAIN log : log[x].plan_created}}

\* after get_historical_metrics_df has returned (f.result) or raised: the body
\* of the try and the except clause
gkm_fetched(g, f) ==
    LET i == g.sublist_index
        added == plans_added(i, f.log)
        g1 == [g EXCEPT !.account = @ \cup added, !.created = @ \cup added]
        _kwps == [n \in DOMAIN f.result.plans |-> <<i, f.result.plans[n]>>]
    IN  IF f.pc = "done"
        THEN IF f.result.df # NoAttempt
             THEN [g1 EXCEPT !.pc = "loop",
                             !.keyword_plans = @ \o _kwps,
                             !.frames = Append(@, <<i, f.result.df>>),
                             !.account = @ \ {_kwps[n] : n \in DOMAIN _kwps}]
             ELSE [g1 EXCEPT !.pc = "loop"]
        ELSE IF f.log[Len(f.log)].cls = "GoogleAdsException"
        THEN [g1 EXCEPT !.pc = "break"]
        ELSE [g1 EXCEPT !.pc = "raised"]

get_keyword_metrics_call ==
    /\ gkm.pc = "idle"
    /\ kwp.pc = "idle"
    /\ \E n \in 1..MaxSublists : gkm' = gkm_enter(n)
    /\ UNCHANGED <<env, ga4, ga3, gsc, df, kwp, idea, tbl, vol, col, hist, frm, cal, probe>>

\* the next pass through the loop calls get_historical_metrics_df
get_keyword_metrics_fetch ==
    /\ gkm.pc = "loop"
    /\ gkm.sublist_index < gkm.n
    /\ kwp' = kwp_enter(DEFAULT_MAX_RETRIES)
    /\ gkm' = [gkm EXCEPT !.pc = "fetch", !.sublist_index = @ + 1]
    /\ UNCHANGED <<env, ga4, ga3, gsc, df, idea, tbl, vol, col, hist, frm, cal, probe>>

get_keyword_metrics_fetched ==
    /\ gkm.pc = "fetch"
    /\ kwp.pc \in {"done", "raised"}
    /\ gkm' = gkm_fetched(gkm, kwp)
    /\ kwp' = KwpIdle
    /\ UNCHANGED <<env, ga4, ga3, gsc, df, idea, tbl, vol, col, hist, frm, cal, probe>>

\* after the loop, or after the break
get_keyword_metrics_return ==
    /\ \/ gkm.pc = "loop" /\ gkm.sublist_index = gkm.n
       \/ gkm.pc = "break"
    /\ gkm' = [gkm EXCEPT !.pc = "done"]
    /\ UNCHANGED <<env, ga4, ga3, gsc, df, kwp, idea, tbl, vol, col, hist, frm, cal, probe>>

InitGKM ==
    /\ env = EnvInit(MaxCalls, "free", 0, TRUE, TRUE, TRUE)
    /\ ga4 = Ga4Idle
    /\ ga3 = Ga3Idle
    /\ gsc = GscIdle
    /\ df = DfIdle
    /\ kwp = KwpIdle
    /\ OtherInit

NextGKM ==
    \/ get_keyword_metrics_call
    \/ get_keyword_metrics_fetch
    \/ get_historical_metrics_df_attempt
    \/ get_historical_metrics_df_return
    \/ get_keyword_metrics_fetched
    \/ get_keyword_metrics_return

SpecGKM == InitGKM /\ [][NextGKM]_vars

(***************************************************************************)
(* Claims about get_keyword_metrics                                        *)
(***************************************************************************)
\* C26: when get_keyword_metrics returns, no keyword plan it created is left
\* on the customer account.
C26_NoLeakedPlans ==
    gkm.pc = "done" => gkm.account = {}

(***************************************************************************)
(* GADataFrame.__init__: the columns and the join dimensions of the Table  *)
(* built from a response without rows (df_input is None) and from a        *)
(* response with rows (from_ga_response)                                   *)
(*                                                                         *)
(* A field name is a sequence of characters, so that camel_to_snake is the *)
(* conversion the code applies.                                            *)
(***************************************************************************)
\* the field names the code mentions, by their spelling
FieldName ==
    [landingPagePlusQueryString |->
        <<"l", "a", "n", "d", "i", "n", "g", "P", "a", "g", "e", "P", "l", "u", "s", "Q", "u", "e", "r", "y", "S", "t", "r", "i", "n", "g">>,
     landingPagePath |->
        <<"l", "a", "n", "d", "i", "n", "g", "P", "a", "g", "e", "P", "a", "t", "h">>,
     landingPageFull |->
        <<"l", "a", "n", "d", "i", "n", "g", "P", "a", "g", "e", "F", "u", "l", "l">>,
     landingPage |->
        <<"l", "a", "n", "d", "i", "n", "g", "P", "a", "g", "e">>,
     landingPageParameter |->
        <<"l", "a", "n", "d", "i", "n", "g", "P", "a", "g", "e", "P", "a", "r", "a", "m", "e", "t", "e", "r">>,
     countryId |->
        <<"c", "o", "u", "n", "t", "r", "y", "I", "d">>,
     countryIsoCode |->
        <<"c", "o", "u", "n", "t", "r", "y", "I", "s", "o", "C", "o", "d", "e">>,
     deviceCategory |->
        <<"d", "e", "v", "i", "c", "e", "C", "a", "t", "e", "g", "o", "r", "y">>,
     device |->
        <<"d", "e", "v", "i", "c", "e">>,
     sourceMedium |->
        <<"s", "o", "u", "r", "c", "e", "M", "e", "d", "i", "u", "m">>,
     sessionSourceMedium |->
        <<"s", "e", "s", "s", "i", "o", "n", "S", "o", "u", "r", "c", "e", "M", "e", "d", "i", "u", "m">>,
     firstUserSourceMedium |->
        <<"f", "i", "r", "s", "t", "U", "s", "e", "r", "S", "o", "u", "r", "c", "e", "M", "e", "d", "i", "u", "m">>,
     source |->
        <<"s", "o", "u", "r", "c", "e">>,
     medium |->
        <<"m", "e", "d", "i", "u", "m">>,
     firstUserSource |->
        <<"f", "i", "r", "s", "t", "U", "s", "e", "r", "S", "o", "u", "r", "c", "e">>,
     firstUserMedium |->
        <<"f", "i", "r", "s", "t", "U", "s", "e", "r", "M", "e", "d", "i", "u", "m">>,
     first_user_source |->
        <<"f", "i", "r", "s", "t", "_", "u", "s", "e", "r", "_", "s", "o", "u", "r", "c", "e">>,
     first_user_medium |->
        <<"f", "i", "r", "s", "t", "_", "u", "s", "e", "r", "_", "m", "e", "d", "i", "u", "m">>,
     transactionsPerSession |->
        <<"t", "r", "a", "n", "s", "a", "c", "t", "i", "o", "n", "s", "P", "e", "r", "S", "e", "s", "s", "i", "o", "n">>,
     conversionRate |->
        <<"c", "o", "n", "v", "e", "r", "s", "i", "o", "n", "R", "a", "t", "e">>,
     itemPurchaseQuantity |->
        <<"i", "t", "e", "m", "P", "u", "r", "c", "h", "a", "s", "e", "Q", "u", "a", "n", "t", "i", "t", "y">>,
     itemQuantity |->
        <<"i", "t", "e", "m", "Q", "u", "a", "n", "t", "i", "t", "y">>,
     date |->
        <<"d", "a", "t", "e">>,
     dateHourMinute |->
        <<"d", "a", "t", "e", "H", "o", "u", "r", "M", "i", "n", "u", "t", "e">>,
     dateHour |->
        <<"d", "a", "t", "e", "H", "o", "u", "r">>,
     yearWeek |->
        <<"y", "e", "a", "r", "W", "e", "e", "k">>,
     recordDate |->
        <<"r", "e", "c", "o", "r", "d", "D", "a", "t", "e">>,
     recordTime |->
        <<"r", "e", "c", "o", "r", "d", "T", "i", "m", "e">>,
     record_date |->
        <<"r", "e", "c", "o", "r", "d", "_", "d", "a", "t", "e">>,
     record_date_start |->
        <<"r", "e", "c", "o", "r", "d", "_", "d", "a", "t", "e", "_", "s", "t", "a", "r", "t">>,
     country |->
        <<"c", "o", "u", "n", "t", "r", "y">>,
     sessions |->
        <<"s", "e", "s", "s", "i", "o", "n", "s">>]

\* self.rename(columns={old: new}, inplace=True)
rename_column(t, old, new) ==
    [t EXCEPT !.columns = (@ \ {old}) \cup {new}]

\* self[name] = ... for each name
set_columns(t, names) == [t EXCEPT !.columns = @ \cup names]

\* self.drop(columns=name, inplace=True)
drop_column(t, name) == [t EXCEPT !.columns = @ \ {name}]

\* remove_list_item(self.join_dimensions, name)
remove_join_dimensions(t, name) ==
    [t EXCEPT !.join_dimensions = SelectSeq(@, LAMBDA d : d # name)]

\* self.join_dimensions.extend(names)
add_join_dimensions(t, names) == [t EXCEPT !.join_dimensions = @ \o names]

\* a dimension renamed: the column, and the join dimension
renamed(t, old, new) ==
    IF old \in t.columns
    THEN add_join_dimensions(remove_join_dimensions(rename_column(t, old, new), old),
                             <<new>>)
    ELSE t

\* a dimension replaced by other columns, which become the join dimensions
split(t, old, columns, join_dimensions) ==
    IF old \in t.columns
    THEN add_join_dimensions(
            remove_join_dimensions(drop_column(set_columns(t, columns), old), old),
            join_dimensions)
    ELSE t

\* a metric renamed: the column only
metric_renamed(t, old, new) ==
    IF old \in t.columns THEN rename_column(t, old, new) ELSE t

\* if 'landingPagePath' in self.columns (df_input is None): the column
\* becomes landingPageFull, landingPage and landingPageParameter are added
empty_landing_page_path(t) ==
    IF FieldName.landingPagePath \in t.columns
    THEN add_join_dimensions(
            remove_join_dimensions(
               set_columns(rename_column(t, FieldName.landingPagePath,
                                         FieldName.landingPageFull),
                           {FieldName.landingPage, FieldName.landingPageParameter}),
               FieldName.landingPagePath),
            <<FieldName.landingPage, FieldName.landingPageFull,
              FieldName.landingPageParameter>>)
    ELSE t

\* mutant: the yearWeek rule of the branch without rows is missing
empty_year_week_kept(t) == t

\* if 'yearWeek' in self.columns (df_input is None)
empty_year_week(t) ==
    split(t, FieldName.yearWeek, {FieldName.recordDate}, <<FieldName.recordDate>>)

\* the branch df_input is None, from the columns dimensions + metrics on
init_without_rows(t) ==
    LET n == FieldName
        t1 == renamed(t, n.landingPagePlusQueryString, n.landingPagePath)
        t2 == empty_landing_page_path(t1)
        t3 == renamed(t2, n.countryId, n.countryIsoCode)
        t4 == renamed(t3, n.deviceCategory, n.device)
        t5 == split(t4, n.sourceMedium, {n.source, n.medium}, <<n.source, n.medium>>)
        t6 == split(t5, n.sessionSourceMedium, {n.source, n.medium},
                    <<n.source, n.medium>>)
        t7 == split(t6, n.firstUserSourceMedium, {n.firstUserSource, n.firstUserMedium},
                    <<n.first_user_source, n.first_user_medium>>)
        t8 == metric_renamed(t7, n.transactionsPerSession, n.conversionRate)
        t9 == metric_renamed(t8, n.itemPurchaseQuantity, n.itemQuantity)
        t10 == renamed(t9, n.date, n.recordDate)
        t11 == split(t10, n.dateHourMinute, {n.recordDate, n.recordTime},
                     <<n.recordDate, n.recordTime>>)
        t12 == split(t11, n.dateHour, {n.recordDate, n.recordTime},
                     <<n.recordDate, n.recordTime>>)
    IN  empty_year_week(t12)

\* if 'landingPagePath' in self.columns (from_ga_response)
ga_landing_page_path(t) ==
    IF FieldName.landingPagePath \in t.columns
    THEN add_join_dimensions(
            remove_join_dimensions(
               rename_column(set_columns(t, {FieldName.landingPage,
                                             FieldName.landingPageParameter}),
                             FieldName.landingPagePath, FieldName.landingPageFull),
               FieldName.landingPagePath),
            <<FieldName.landingPageFull, FieldName.landingPageParameter,
              FieldName.landingPage>>)
    ELSE t

\* the branch from_ga_response, from the columns of the rows on
init_from_ga_response(t) ==
    LET n == FieldName
        t1 == renamed(t, n.landingPagePlusQueryString, n.landingPagePath)
        t2 == metric_renamed(t1, n.itemPurchaseQuantity, n.itemQuantity)
        t3 == ga_landing_page_path(t2)
        t4 == metric_renamed(t3, n.transactionsPerSession, n.conversionRate)
        t5 == renamed(t4, n.deviceCategory, n.device)
        t6 == split(t5, n.sourceMedium, {n.source, n.medium}, <<n.source, n.medium>>)
        t7 == split(t6, n.sessionSourceMedium, {n.source, n.medium},
                    <<n.source, n.medium>>)
        t8 == split(t7, n.firstUserSourceMedium,
                    {n.first_user_source, n.first_user_medium},
                    <<n.first_user_source, n.first_user_medium>>)
        t9 == renamed(t8, n.date, n.recordDate)
        t10 == split(t9, n.yearWeek, {n.recordDate}, <<n.recordDate>>)
        t11 == split(t10, n.dateHourMinute, {n.recordDate, n.recordTime},
                     <<n.recordDate, n.recordTime>>)
        t12 == split(t11, n.dateHour, {n.recordDate, n.recordTime},
                     <<n.recordDate, n.recordTime>>)
    IN  renamed(t12, n.countryId, n.countryIsoCode)

\* snake_case_join_dimensions
snake_case_join_dimensions(t) ==
    [t EXCEPT !.join_dimensions = [i \in DOMAIN @ |-> camel_to_snake(@[i])]]

\* snake_case_columns
snake_case_columns(t) ==
    [t EXCEPT !.columns = {camel_to_snake(c) : c \in @}]

\* the insertion of record_date and record_date_start at the end of __init__
insert_record_date(t, start_date, end_date) ==
    IF FieldName.record_date \in t.columns THEN t
    ELSE IF start_date # NoDate /\ end_date # NoDate
    THEN add_join_dimensions(
            set_columns(t, {FieldName.record_date, FieldName.record_date_start}),
            <<FieldName.record_date, FieldName.record_date_start>>)
    ELSE IF end_date # NoDate \/ start_date # NoDate
    THEN add_join_dimensions(set_columns(t, {FieldName.record_date}),
                             <<FieldName.record_date>>)
    ELSE t

\* GADataFrame.__init__ as called by from_standard_analytics_response: its
\* columns and join dimensions
GADataFrame_keys(has_rows, dimensions, metrics, start_date, end_date) ==
    LET t0 == [dimensions |-> dimensions,
               columns |-> {dimensions[i] : i \in DOMAIN dimensions}
                           \cup {metrics[i] : i \in DOMAIN metrics},
               join_dimensions |-> dimensions]
        t1 == IF has_rows THEN init_from_ga_response(t0) ELSE init_without_rows(t0)
    IN  insert_record_date(snake_case_columns(snake_case_join_dimensions(t1)),
                           start_date, end_date)

\* the dimensions a query is tried with
FrmDimensionNames ==
    {FieldName.landingPagePlusQueryString, FieldName.landingPagePath,
     FieldName.countryId, FieldName.deviceCategory, FieldName.sourceMedium,
     FieldName.sessionSourceMedium, FieldName.firstUserSourceMedium, FieldName.date,
     FieldName.dateHour, FieldName.dateHourMinute, FieldName.yearWeek,
     FieldName.country}

FrmDimensions ==
    {<<d>> : d \in FrmDimensionNames}
    \cup {<<d, e>> : <<d, e>> \in {p \in FrmDimensionNames \X FrmDimensionNames :
                                      p[1] # p[2]}}

FrmMetrics ==
    {<<FieldName.sessions>>,
     <<FieldName.transactionsPerSession, FieldName.itemPurchaseQuantity>>}

FrmDates == {<<NoDate, NoDate>>, <<2, 3>>}

\* the Tables of two responses to one query, one without rows, one with rows
from_standard_analytics_response_call ==
    /\ frm.pc = "idle"
    /\ \E dimensions \in FrmDimensions, metrics \in FrmMetrics, dates \in FrmDates :
          frm' = [pc |-> "built", dimensions |-> dimensions, metrics |-> metrics,
                  empty |-> GADataFrame_keys(FALSE, dimensions, metrics,
                                             dates[1], dates[2]),
                  full |-> GADataFrame_keys(TRUE, dimensions, metrics,
                                            dates[1], dates[2]),
                  raised |-> None]
    /\ UNCHANGED <<env, ga4, ga3, gsc, df, kwp, idea, tbl, vol, col, hist, gkm, cal, probe>>

\* frames[0].join_on_dimensions(frames[1]), either Table first: the check of
\* the join dimensions
join_chunks_call ==
    /\ frm.pc = "built"
    /\ \E first \in {"empty", "full"} :
          LET self == IF first = "empty" THEN frm.empty ELSE frm.full
              dataframe == IF first = "empty" THEN frm.full ELSE frm.empty
          IN  frm' = [frm EXCEPT !.pc = "joined",
                                 !.raised = IF join_dimensions_differ(self, dataframe)
                                            THEN "ValueError" ELSE None]
    /\ UNCHANGED <<env, ga4, ga3, gsc, df, kwp, idea, tbl, vol, col, hist, gkm, cal, probe>>

InitFrm ==
    /\ env = EnvInit(MaxCalls, "free", 0, TRUE, TRUE, TRUE)
    /\ ga4 = Ga4Idle
    /\ ga3 = Ga3Idle
    /\ gsc = GscIdle
    /\ df = DfIdle
    /\ kwp = KwpIdle
    /\ OtherInit

NextFrm == from_standard_analytics_response_call \/ join_chunks_call

SpecFrm == InitFrm /\ [][NextFrm]_vars

(***************************************************************************)
(* Claims about the join keys of a Table                                   *)
(***************************************************************************)
FrmKeys(t) == {t.join_dimensions[i] : i \in DOMAIN t.join_dimensions}

\* C27: for one dimension list and one date range the Table built from a
\* response without rows and the Table built from a response with rows have
\* the same set of join keys, every join key is a column of its Table, and
\* joining the two does not fail on mismatched join dimensions.
C27_JoinKeysAgree ==
    /\ frm.pc \in {"built", "joined"} =>
          /\ FrmKeys(frm.empty) = FrmKeys(frm.full)
          /\ FrmKeys(frm.empty) \subseteq frm.empty.columns
          /\ FrmKeys(frm.full) \subseteq frm.full.columns
    /\ frm.pc = "joined" => frm.raised = None

C27_Witness ==
    /\ frm.pc = "joined"
    /\ frm.dimensions = <<FieldName.firstUserSourceMedium, FieldName.landingPagePath>>
    /\ FieldName.first_user_source \in FrmKeys(frm.empty)
    /\ camel_to_snake(FieldName.landingPageFull) \in FrmKeys(frm.full)
    /\ FieldName.record_date_start \in FrmKeys(frm.empty)
    /\ frm.raised = None

(***************************************************************************)
(* kwp_wrappers.py: the trailing months of an empty volume trend           *)
(***************************************************************************)
is_leap(year) == year % 4 = 0 /\ (year % 100 # 0 \/ year % 400 = 0)

days_in_month(year, month) ==
    IF month = 2 THEN (IF is_leap(year) THEN 29 ELSE 28)
    ELSE IF month \in {4, 6, 9, 11} THEN 30
    ELSE 31

\* datetime.date(year, month, day): the date, or ValueError when there is no
\* such day
date(year, month, day) ==
    IF month \in 1..12 /\ day \in 1..days_in_month(year, month)
    THEN [raised |-> None, year |-> year, month |-> month, day |-> day]
    ELSE [raised |-> "ValueError", year |-> year, month |-> month, day |-> day]

\* _add_months(dt, months): m // 12 and m % 12 round towards minus infinity
add_months(dt, months) ==
    LET m == dt.month - 1 + months
    IN  date(dt.year + (m \div 12), (m % 12) + 1, dt.day)

\* _empty_volume_trend_tuples(n) on the day today: the tuples (volume, year,
\* month enum value), or the exception of the first date that does not exist
empty_volume_trend_tuples(today, n) ==
    LET _last_month == add_months(today, -1)
        months == [i \in 1..n |->
                     add_months(date(_last_month.year, _last_month.month, 15), -(i - 1))]
    IN  IF _last_month.raised # None
        THEN [raised |-> _last_month.raised, tuples |-> <<>>]
        ELSE [raised |-> None,
              tuples |-> [i \in 1..n |-> [monthly_searches |-> 0,
                                           year |-> months[i].year,
                                           month_enum |-> months[i].month + 1]]]

\* _get_month_from_enum_value: NaN stands for None
get_month_from_enum_value(month_enum_value) ==
    IF month_enum_value <= 1 THEN NaN ELSE month_enum_value - 2

\* _conv_date(year, month, day, month_index) on ints
conv_date(year, month, day, month_index) ==
    IF year = NaN \/ month = NaN THEN None
    ELSE date(year, IF month_index = 0 THEN month + 1 ELSE month, day)

\* the days datetime.date.today() is drawn from
CalYears == {2023, 2024}

CalDays ==
    {date(y, m, d) : <<y, m, d>> \in {t \in CalYears \X (1..12) \X (1..31) :
                                         t[3] <= days_in_month(t[1], t[2])}}

empty_volume_trend_tuples_call ==
    /\ cal.pc = "idle"
    /\ \E today \in CalDays :
          cal' = [pc |-> "done", today |-> today,
                  result |-> empty_volume_trend_tuples(today, 12)]
    /\ UNCHANGED <<env, ga4, ga3, gsc, df, kwp, idea, tbl, vol, col, hist, gkm, frm, probe>>

InitCal ==
    /\ env = EnvInit(MaxCalls, "free", 0, TRUE, TRUE, TRUE)
    /\ ga4 = Ga4Idle
    /\ ga3 = Ga3Idle
    /\ gsc = GscIdle
    /\ df = DfIdle
    /\ kwp = KwpIdle
    /\ OtherInit

NextCal == empty_volume_trend_tuples_call

SpecCal == InitCal /\ [][NextCal]_vars

(***************************************************************************)
(* Claims about the trailing months                                        *)
(***************************************************************************)
\* months since year 0
month_number(year, month) == 12 * year + (month - 1)

\* C29: on every day _empty_volume_trend_tuples returns, without raising, 12
\* entries: the i-th is the calendar month i months before the current one
\* and carries the enum value month + 1; and the record date rebuilt from an
\* entry by _get_month_from_enum_value and _conv_date(year, month, 15,
\* month_index=0) is the 15th of that year and month.
C29_TrailingMonths ==
    cal.pc = "done" =>
        /\ cal.result.raised = None
        /\ Len(cal.result.tuples) = 12
        /\ \A i \in DOMAIN cal.result.tuples :
              LET t == cal.result.tuples[i]
                  month == t.month_enum - 1
              IN  /\ month \in 1..12
                  /\ month_number(t.year, month) =
                        month_number(cal.today.year, cal.today.month) - i
                  /\ conv_date(t.year, get_month_from_enum_value(t.month_enum), 15, 0) =
                        date(t.year, month, 15)

(***************************************************************************)
(* googalytics_wrapper.py: the cached API probes api_test_ga3/api_test_ga4 *)
(***************************************************************************)
MaxTicks == 3

\* the seconds that pass between two reads
TimeSteps == {10, 3590, 86400}

\* the zones of the machine's clock: datetime.now() - datetime.utcnow()
UtcOffsets == {-3600, 0, 3600}

NoTimestamp == -1

\* timedelta.seconds: the seconds within the day, the days are dropped
timedelta_seconds(delta) == delta % 86400

\* general_utils.test_time(t, seconds) at the local time now: "True", "False"
\* or None when t is not a datetime
test_time(t, seconds, now) ==
    IF t = NoTimestamp THEN None
    ELSE LET _diff == timedelta_seconds(now - t)
         IN  IF _diff < seconds THEN "True" ELSE "False"

\* _api_test_ga3 = dict(): .get('status') and .get('timestamp') are None
EmptyApiTest == [status |-> None, timestamp |-> NoTimestamp]

\* the statuses _perform_api_test_ga3 / _perform_api_test_ga4 can store
ApiStatuses == {"Success", "HttpError"}

\* _perform_api_test_*: the result, stamped with datetime.utcnow()
perform_api_test(status, utcnow) == [status |-> status, timestamp |-> utcnow]

\* the condition of the property api_test_ga3 / api_test_ga4
api_test_stale(cached, now) ==
    cached.status = None \/ test_time(cached.timestamp, 3600, now) # "True"

\* one read of the property api: the cache after it and the record of the read
api_test_read(api, status) ==
    LET cached == probe.cache[api]
        stale == api_test_stale(cached, probe.utcnow + probe.utc_offset)
        result == IF stale THEN perform_api_test(status, probe.utcnow) ELSE cached
    IN  probe' = [probe EXCEPT !.cache[api] = result,
                               !.read = [api |-> api,
                                         utcnow |-> probe.utcnow,
                                         before |-> cached,
                                         probed |-> stale,
                                         returned |-> result]]

api_test_ga3 ==
    /\ probe.pc = "ready"
    /\ \E status \in ApiStatuses : api_test_read("ga3", status)
    /\ UNCHANGED <<env, ga4, ga3, gsc, df, kwp, idea, tbl, vol, col, hist, gkm, frm, cal>>

api_test_ga4 ==
    /\ probe.pc = "ready"
    /\ \E status \in ApiStatuses : api_test_read("ga4", status)
    /\ UNCHANGED <<env, ga4, ga3, gsc, df, kwp, idea, tbl, vol, col, hist, gkm, frm, cal>>

\* time passes between two reads
clock_tick ==
    /\ probe.pc = "ready"
    /\ probe.ticks < MaxTicks
    /\ \E step \in TimeSteps :
          probe' = [probe EXCEPT !.utcnow = @ + step, !.ticks = @ + 1]
    /\ UNCHANGED <<env, ga4, ga3, gsc, df, kwp, idea, tbl, vol, col, hist, gkm, frm, cal>>

NoRead == [api |-> None, utcnow |-> 0, before |-> EmptyApiTest, probed |-> FALSE, returned |-> EmptyApiTest]

InitProbe ==
    /\ env = EnvInit(MaxCalls, "free", 0, TRUE, TRUE, TRUE)
    /\ ga4 = Ga4Idle
    /\ ga3 = Ga3Idle
    /\ gsc = GscIdle
    /\ df = DfIdle
    /\ kwp = KwpIdle
    /\ idea = IdeaIdle
    /\ tbl = TblIdle
    /\ vol = VolIdle
    /\ col = ColIdle
    /\ hist = HistIdle
    /\ gkm = GkmIdle
    /\ frm = FrmIdle
    /\ cal = CalIdle
    /\ \E utc_offset \in UtcOffsets :
          probe = [pc |-> "ready", utcnow |-> 0, ticks |-> 0, utc_offset |-> utc_offset,
                   cache |-> [api \in {"ga3", "ga4"} |-> EmptyApiTest],
                   read |-> NoRead]

NextProbe ==
    \/ api_test_ga3
    \/ api_test_ga4
    \/ clock_tick

SpecProbe == InitProbe /\ [][NextProbe]_vars

(***************************************************************************)
(* Claims about the cached API probes                                      *)
(***************************************************************************)
\* the seconds since the result the read found was recorded
ProbeAge == probe.read.utcnow - probe.read.before.timestamp

\* C30: a read of api_test_ga3 or api_test_ga4 returns the cached result
\* without a new probe only if the cached result has a status and was
\* recorded less than 3600 seconds earlier; a cached result that is 3600
\* seconds old or older is not returned: the probe runs again and its
\* result, stamped with the time of the read, is stored and returned.
C30_ProbeCacheFreshness ==
    (probe.pc = "ready" /\ probe.read.api # None) =>
        /\ ~probe.read.probed =>
              /\ probe.read.before.status # None
              /\ ProbeAge < 3600
        /\ (probe.read.before.status # None /\ ProbeAge >= 3600) =>
              /\ probe.read.probed
              /\ probe.read.returned.timestamp = probe.read.utcnow
              /\ probe.cache[probe.read.api] = probe.read.returned

====
